---------------------------- MODULE Spec2Model ----------------------------
(***************************************************************************)
(* A model of the interactive xylophone: the audio engine                  *)
(* (audio-engine.js), the note registry and polyphony governor             *)
(* (xylophone.js), the gesture trigger path (input-handler.js), the        *)
(* visual pulse (visual-feedback.js) and the sequence recorder/player      *)
(* (controls.js).                                                          *)
(*                                                                         *)
(* The program is single threaded: every handler runs to completion, so    *)
(* one action of the model is one whole handler (a method call, a DOM      *)
(* event, a timer callback, the resumption of an awaiting loop).  Handlers *)
(* are written as operators from a record of the program's fields to the   *)
(* record after the call, so that nested synchronous calls compose the     *)
(* way they do in the source; an action reads the variables into such a    *)
(* record, applies the handler and writes the result back.                 *)
(*                                                                         *)
(* Times are integer milliseconds.  Date.now() and the audio clock         *)
(* (audioContext.currentTime) are the one variable now.                    *)
(***************************************************************************)
EXTENDS Integers, Sequences, FiniteSets, TLC

(***************************************************************************)
(* Bounds of the model.                                                    *)
(***************************************************************************)
\* Clock step and horizon of the voice specification (Spec).
TickMs == 1000
MaxTicks == 4
\* Clock step and horizon of the recorder specification (SpecRec).
RecTickMs == 50
RecMaxTicks == 4
\* Clock step and horizon of the pointer and visual pulse specifications
\* (SpecTouch, SpecPulse).
PulseTickMs == 100
PulseMaxTicks == 5
\* Voices that may be live at once (a trigger beyond it is not explored).
MaxVoices == 2
\* Pending cleanup timers of Xylophone.playNote (a trigger beyond it is not
\* explored).
MaxTimers == 2
\* Playbacks begun in one run (a playRecording beyond it is not explored).
MaxPlaybacks == 2
\* Longest recorded sequence explored by live recording.
MaxSeqLen == 3
\* Audio contexts created in one run (an initialize() beyond it is not
\* explored).
MaxContexts == 3
\* How far below 0 and above the last index the numeric inputs of the pure
\* functions range (SpecPure).
MaxIdx == 6

(***************************************************************************)
(* Program constants.                                                      *)
(***************************************************************************)
DefaultNoteDurationMs == 2000
DefaultMaxPolyphony == 20
PolyphonyUpper == 50
ReleaseMs == 1200
\* AudioEngine.envelope.attack and .decay, in ms.
AttackMs == 5
DecayMs == 100
ActiveDurationMs == 300
DefaultMaxRecordingLength == 100
RecordingLengthUpper == 500
NoteDurationUpperMs == 10000
MaxInitializationAttempts == 3
\* AudioEngine.defaultVolume, in percent.
DefaultVolume == 70
\* InputHandler.keyDebounceTime and InputHandler.touchDebounceTime, in ms.
KeyDebounceTimeMs == 100
TouchDebounceTimeMs == 300

(***************************************************************************)
(* JavaScript values.  A value is a record whose field t is its kind:      *)
(* "int" is the integer v, "frac" the non-integer number v + 0.5, "nan"    *)
(* NaN, "str" the string s, "bool" a boolean, "undef", "null" and "func"   *)
(* (a function) carry no payload; "arr" is an array of items and "obj" an  *)
(* object, its fields a sequence of <<key, value>> in insertion order.     *)
(***************************************************************************)
JInt(k) == [t |-> "int", v |-> k]
JFrac(k) == [t |-> "frac", v |-> k]
JStr(str) == [t |-> "str", s |-> str]
JBool(b) == [t |-> "bool", b |-> b]
JNaN == [t |-> "nan"]
JUndef == [t |-> "undef"]
JNull == [t |-> "null"]
JFunc == [t |-> "func"]
JArr(items) == [t |-> "arr", items |-> items]
JObj(fields) == [t |-> "obj", fields |-> fields]

\* typeof x === 'number'
TypeofNumber(x) == x.t \in {"int", "frac", "nan"}

\* The decimal texts of the array indices 0 .. 10.
IndexStrings == <<"0", "1", "2", "3", "4", "5", "6", "7", "8", "9", "10">>
IsIndexString(str) == \E k \in 1..Len(IndexStrings) : IndexStrings[k] = str
IndexOfString(str) == (CHOOSE k \in 1..Len(IndexStrings) : IndexStrings[k] = str) - 1

\* ToNumber of a string: the index strings, the empty string (0) and two
\* more numeric strings convert; every other string gives NaN.
StringIsNumeric(str) == IsIndexString(str) \/ str \in {"", "-1", "11"}
StringToNumber(str) == CASE IsIndexString(str) -> IndexOfString(str) [] str = "-1" -> -1 [] str = "11" -> 11 [] OTHER -> 0

\* ToNumber(x) is NaN (every comparison with it is false)
ToNumberIsNaN(x) == CASE x.t \in {"int", "frac", "null", "bool"} -> FALSE [] x.t = "str" -> ~StringIsNumeric(x.s) [] OTHER -> TRUE

\* Twice ToNumber(x), an integer for every value that is not NaN.
TwiceToNumber(x) == CASE x.t = "int" -> 2 * x.v [] x.t = "frac" -> 2 * x.v + 1 [] x.t = "str" -> 2 * StringToNumber(x.s) [] x.t = "bool" -> (IF x.b THEN 2 ELSE 0) [] OTHER -> 0

\* x < n, x >= n, x > n and x <= n for an integer n, as JavaScript's
\* relational operators compute them.
JsLess(x, n) == ~ToNumberIsNaN(x) /\ TwiceToNumber(x) < 2 * n
JsGeq(x, n) == ~ToNumberIsNaN(x) /\ TwiceToNumber(x) >= 2 * n
JsGreater(x, n) == ~ToNumberIsNaN(x) /\ TwiceToNumber(x) > 2 * n
JsLeq(x, n) == ~ToNumberIsNaN(x) /\ TwiceToNumber(x) <= 2 * n

\* Number.isInteger(x)
NumberIsInteger(x) == x.t = "int"

(***************************************************************************)
(* The note registry (Xylophone constructor).  Frequencies are in          *)
(* hundredths of a hertz.                                                  *)
(***************************************************************************)
notes == << [name |-> "C4", frequency |-> 26163], [name |-> "D4", frequency |-> 29366], [name |-> "E4", frequency |-> 32963], [name |-> "F4", frequency |-> 34923], [name |-> "G4", frequency |-> 39200], [name |-> "A4", frequency |-> 44000], [name |-> "B4", frequency |-> 49388], [name |-> "C5", frequency |-> 52325], [name |-> "D5", frequency |-> 58733], [name |-> "E5", frequency |-> 65925], [name |-> "F5", frequency |-> 69846] >>

\* this.notes[x]: the array element the property key of x names, if any.
\* An integer or the numeric string of one names element x; every other key
\* ("1.5", "undefined", "null", "NaN", a function's text) names nothing.
HasNoteAt(x) == CASE x.t = "int" -> x.v >= 0 /\ x.v < Len(notes) [] x.t = "str" -> IsIndexString(x.s) /\ IndexOfString(x.s) < Len(notes) [] OTHER -> FALSE
NoteAt(x) == IF x.t = "int" THEN notes[x.v + 1] ELSE notes[IndexOfString(x.s) + 1]

\* this.keyMap[key]: the own entries, Object.prototype's members for their
\* names (a function for "toString"), undefined otherwise.
keyMap(key) == CASE key \in {"a", "A"} -> JInt(0) [] key \in {"s", "S"} -> JInt(1) [] key \in {"d", "D"} -> JInt(2) [] key \in {"f", "F"} -> JInt(3) [] key \in {"g", "G"} -> JInt(4) [] key \in {"h", "H"} -> JInt(5) [] key \in {"j", "J"} -> JInt(6) [] key \in {"k", "K"} -> JInt(7) [] key \in {"l", "L"} -> JInt(8) [] key \in {";", ":"} -> JInt(9) [] key \in {"'", "\""} -> JInt(10) [] key = "toString" -> JFunc [] OTHER -> JUndef

(***************************************************************************)
(* State.                                                                  *)
(***************************************************************************)
VARIABLES
  now,                 \* Date.now() and audioContext.currentTime, in ms
  isInitialized,       \* AudioEngine.isInitialized
  activeOscillators,   \* AudioEngine.activeOscillators: the live voices
  activeNotes,         \* Xylophone.activeNotes: a Set of note indices
  noteTimers,          \* pending setTimeout callbacks of Xylophone.playNote
  maxPolyphony,        \* Xylophone.maxPolyphony
  activeBars,          \* bars carrying the 'active' class
  activeTimeouts,      \* VisualFeedback.activeTimeouts: bar -> removal timer
  isRecording,         \* Controls.isRecording
  isPlaying,           \* Controls.isPlaying
  recordedSequence,    \* Controls.recordedSequence
  recordingStartTime,  \* Controls.recordingStartTime
  maxRecordingLength,  \* Controls.maxRecordingLength
  playbackTimeout,     \* Controls.playbackTimeout: "null" or "handle"
  playback,            \* the suspended loop of playSequenceWithTiming
  exported,            \* the text last returned by exportSequence
  exportedFrom,        \* the sequence that text was made from
  noteDuration,        \* Xylophone.noteDuration, in ms
  audioContext,        \* AudioEngine.audioContext: 0 (null) or the context's number
  masterGain,          \* AudioEngine.masterGain: NoGain (null) or the gain node
  contextsCreated,     \* how many AudioContexts (and master gains) were created
  awaiting,            \* async calls of the engine suspended at their await
  app,                 \* XylophoneApp: its fields, the notice, the listeners
  volumeAsked,         \* the argument of the last AudioEngine.setVolume call
  playbackRun,         \* the playbacks begun so far, and when the last one began
  inputHandler,        \* InputHandler: keysCurrentlyPressed, lastKeyPress, touchActive, touchTimeout
  keysHeld,            \* keys whose keydown triggered a note and that were not released since
  lastTouchAt,         \* when the last touchstart on a bar was delivered
  lastKeyNoteAt,       \* key -> when a keydown of it last triggered a note
  volumeSlider,        \* Controls.volumeSlider.value, in percent
  last                 \* the last call: operation, argument, result, events

vars == <<now, isInitialized, activeOscillators, activeNotes, noteTimers, maxPolyphony, activeBars, activeTimeouts, isRecording, isPlaying, recordedSequence, recordingStartTime, maxRecordingLength, playbackTimeout, playback, exported, exportedFrom, noteDuration, audioContext, masterGain, contextsCreated, awaiting, app, volumeAsked, playbackRun, inputHandler, keysHeld, lastTouchAt, lastKeyNoteAt, volumeSlider, last>>

\* No number was passed or returned.
NoNumber == 0 - 1

\* The steps of the try block of AudioEngine.playNote that call the
\* backend, in order: 1 createOscillator, 2 createGain, 3 the two connect
\* calls, 4 the scheduling of the gain's breakpoints, 5 oscillator.start,
\* 6 oscillator.stop.  activeOscillators.add follows them.
ThrowSteps == 1..6

\* No playback was begun: playbackRun counts the playRecording calls that
\* began to play (id), and keeps when the last one began (start) and how
\* many recorded events it has triggered (done), and the playbacks whose
\* playRecording call has returned, its promise settled (settled).
NoRun == [id |-> 0, start |-> 0, done |-> 0, settled |-> {}]

\* No loop of playSequenceWithTiming is suspended.
NoPlayback == [waiting |-> FALSE, run |-> 0, i |-> 0, startTime |-> 0, fireAt |-> 0, note |-> JUndef]

\* AudioEngine.masterGain is null.
NoGain == [id |-> 0, value |-> 0, target |-> 0, setAt |-> 0]

\* The master gain node initialize() creates for context id.
NewGain(id) == [id |-> id, value |-> DefaultVolume, target |-> DefaultVolume, setAt |-> 0]

\* What the last call found: the recorder's flags, a suspended playback
\* loop, the engine's flag, the bars that carried the active class.
Was == [isRecording |-> isRecording, isPlaying |-> isPlaying, waiting |-> playback.waiting, isInitialized |-> isInitialized, activeBars |-> activeBars]

\* The fields a handler may read and write, with the handler's outputs:
\* ret is its return value ("true", "false", "none" for undefined, "throw"
\* for an exception that leaves it), num the number it returned, emitted
\* the notePlayed events it dispatched, activated the bars it gave the
\* active class, triggered the recorded events a playback loop triggered,
\* and blocked says that the run left the bounds of the model.  throwsAt is
\* an input: the step of AudioEngine.playNote's try block at which the
\* backend throws (NoNumber for none).
Cur == [isInitialized |-> isInitialized, activeOscillators |-> activeOscillators, activeNotes |-> activeNotes, noteTimers |-> noteTimers, maxPolyphony |-> maxPolyphony, activeBars |-> activeBars, activeTimeouts |-> activeTimeouts, isRecording |-> isRecording, isPlaying |-> isPlaying, recordedSequence |-> recordedSequence, recordingStartTime |-> recordingStartTime, maxRecordingLength |-> maxRecordingLength, playbackTimeout |-> playbackTimeout, playback |-> playback, noteDuration |-> noteDuration, audioContext |-> audioContext, masterGain |-> masterGain, contextsCreated |-> contextsCreated, awaiting |-> awaiting, app |-> app, volumeAsked |-> volumeAsked, playbackRun |-> playbackRun, inputHandler |-> inputHandler, keysHeld |-> keysHeld, lastTouchAt |-> lastTouchAt, lastKeyNoteAt |-> lastKeyNoteAt, volumeSlider |-> volumeSlider, throwsAt |-> NoNumber, ret |-> "none", num |-> NoNumber, emitted |-> <<>>, activated |-> <<>>, triggered |-> <<>>, blocked |-> FALSE]

\* Write the record a handler returned back to the variables.
Commit(s, op, arg, input) ==
  /\ ~s.blocked
  /\ isInitialized' = s.isInitialized
  /\ activeOscillators' = s.activeOscillators
  /\ activeNotes' = s.activeNotes
  /\ noteTimers' = s.noteTimers
  /\ maxPolyphony' = s.maxPolyphony
  /\ activeBars' = s.activeBars
  /\ activeTimeouts' = s.activeTimeouts
  /\ isRecording' = s.isRecording
  /\ isPlaying' = s.isPlaying
  /\ recordedSequence' = s.recordedSequence
  /\ recordingStartTime' = s.recordingStartTime
  /\ maxRecordingLength' = s.maxRecordingLength
  /\ playbackTimeout' = s.playbackTimeout
  /\ playback' = s.playback
  /\ noteDuration' = s.noteDuration
  /\ audioContext' = s.audioContext
  /\ masterGain' = s.masterGain
  /\ contextsCreated' = s.contextsCreated
  /\ awaiting' = s.awaiting
  /\ app' = s.app
  /\ volumeAsked' = s.volumeAsked
  /\ playbackRun' = s.playbackRun
  /\ inputHandler' = s.inputHandler
  /\ keysHeld' = s.keysHeld
  /\ lastTouchAt' = s.lastTouchAt
  /\ lastKeyNoteAt' = s.lastKeyNoteAt
  /\ volumeSlider' = s.volumeSlider
  /\ last' = [op |-> op, arg |-> arg, input |-> input, ret |-> s.ret, num |-> s.num, emitted |-> s.emitted, activated |-> s.activated, triggered |-> s.triggered, was |-> Was]

(***************************************************************************)
(* AudioEngine (audio-engine.js).                                          *)
(***************************************************************************)
\* Objects created with equal fields (two oscillators of one note started
\* at the same instant, two timers for it) are told apart by a copy number:
\* the least one for which the record is not already in the set.
Fresh(set, rec) == [rec EXCEPT !.copy = CHOOSE c \in 1..(Cardinality(set) + 1) : [rec EXCEPT !.copy = c] \notin set /\ \A d \in 1..(c - 1) : [rec EXCEPT !.copy = d] \in set]

\* AudioEngine.playNote without its check of isInitialized.
AudioEngine_playNote_unchecked(s, frequency, duration) ==
  IF Cardinality(s.activeOscillators) >= MaxVoices THEN [s EXCEPT !.blocked = TRUE]
  ELSE LET releaseStart == now + duration
           releaseEnd == releaseStart + ReleaseMs
           oscillator == Fresh(s.activeOscillators, [frequency |-> frequency, startAt |-> now, attackEnd |-> now + AttackMs, decayEnd |-> now + AttackMs + DecayMs, releaseStart |-> releaseStart, stopAt |-> releaseEnd, rampEnd |-> releaseEnd, gain |-> s.masterGain.id, copy |-> 0])
       IN [s EXCEPT !.activeOscillators = @ \cup {oscillator}, !.ret = "true"]

\* AudioEngine.playNote stopping the oscillator where the release starts.
AudioEngine_playNote_noRelease(s, frequency, duration) ==
  IF ~s.isInitialized \/ s.audioContext = 0 THEN [s EXCEPT !.ret = "false"]
  ELSE IF Cardinality(s.activeOscillators) >= MaxVoices THEN [s EXCEPT !.blocked = TRUE]
  ELSE LET releaseStart == now + duration
           releaseEnd == releaseStart + ReleaseMs
           oscillator == Fresh(s.activeOscillators, [frequency |-> frequency, startAt |-> now, attackEnd |-> now + AttackMs, decayEnd |-> now + AttackMs + DecayMs, releaseStart |-> releaseStart, stopAt |-> releaseStart, rampEnd |-> releaseEnd, gain |-> s.masterGain.id, copy |-> 0])
       IN [s EXCEPT !.activeOscillators = @ \cup {oscillator}, !.ret = "true"]

\* AudioEngine.playNote adding the oscillator to activeOscillators as soon
\* as it is created.
AudioEngine_playNote_tracksEarly(s, frequency, duration) ==
  IF ~s.isInitialized \/ s.audioContext = 0 THEN [s EXCEPT !.ret = "false"]
  ELSE IF s.throwsAt = 1 THEN [s EXCEPT !.ret = "false"]
  ELSE IF Cardinality(s.activeOscillators) >= MaxVoices THEN [s EXCEPT !.blocked = TRUE]
  ELSE LET releaseStart == now + duration
           releaseEnd == releaseStart + ReleaseMs
           oscillator == Fresh(s.activeOscillators, [frequency |-> frequency, startAt |-> now, attackEnd |-> now + AttackMs, decayEnd |-> now + AttackMs + DecayMs, releaseStart |-> releaseStart, stopAt |-> releaseEnd, rampEnd |-> releaseEnd, gain |-> s.masterGain.id, copy |-> 0])
       IN [s EXCEPT !.activeOscillators = @ \cup {oscillator}, !.ret = IF s.throwsAt \in ThrowSteps THEN "false" ELSE "true"]

\* AudioEngine.playNote(frequency, duration): the oscillator is started at
\* now and scheduled to stop at releaseEnd = now + duration + release, the
\* time of the last breakpoint of its gain (rampEnd); the earlier
\* breakpoints of the gain are attackEnd = now + attack, decayEnd =
\* attackEnd + decay and releaseStart = now + duration.  It is connected to
\* the master gain.  A backend call that throws leaves the try block for
\* the catch clause before the oscillator is added to activeOscillators.
AudioEngine_playNote(s, frequency, duration) ==
  IF ~s.isInitialized \/ s.audioContext = 0 THEN [s EXCEPT !.ret = "false"]
  ELSE IF s.throwsAt \in ThrowSteps THEN [s EXCEPT !.ret = "false"]
  ELSE IF Cardinality(s.activeOscillators) >= MaxVoices THEN [s EXCEPT !.blocked = TRUE]
  ELSE LET releaseStart == now + duration
           releaseEnd == releaseStart + ReleaseMs
           oscillator == Fresh(s.activeOscillators, [frequency |-> frequency, startAt |-> now, attackEnd |-> now + AttackMs, decayEnd |-> now + AttackMs + DecayMs, releaseStart |-> releaseStart, stopAt |-> releaseEnd, rampEnd |-> releaseEnd, gain |-> s.masterGain.id, copy |-> 0])
       IN [s EXCEPT !.activeOscillators = @ \cup {oscillator}, !.ret = "true"]

\* AudioEngine.stopAllNotes()
AudioEngine_stopAllNotes(s) ==
  IF ~s.isInitialized THEN s
  ELSE [s EXCEPT !.activeOscillators = {}]

\* oscillator.onended of one voice
onended(s, oscillator) == [s EXCEPT !.activeOscillators = @ \ {oscillator}]

\* AudioEngine.initialize() up to its await or its return.  The backend
\* either has no AudioContext to construct (the catch clause), or gives a
\* context that is running (the call returns true), or gives a suspended
\* one: the call then waits for audioContext.resume().  The context and the
\* master gain are created before the await, whatever an earlier call that
\* is still waiting has created.  by names the caller that awaits the
\* result: "engine" for a direct call, "start" and "gesture" for
\* XylophoneApp.
initializeCall(s, backend, by) ==
  IF s.isInitialized THEN [s EXCEPT !.ret = "true"]
  ELSE IF backend = "none" THEN [s EXCEPT !.isInitialized = FALSE, !.ret = "false"]
  ELSE IF s.contextsCreated >= MaxContexts THEN [s EXCEPT !.blocked = TRUE]
  ELSE LET id == s.contextsCreated + 1
           created == [s EXCEPT !.audioContext = id, !.masterGain = NewGain(id), !.contextsCreated = id]
       IN IF backend = "suspended" THEN [created EXCEPT !.awaiting = @ \cup {[call |-> "initialize", context |-> id, by |-> by]}]
          ELSE [created EXCEPT !.isInitialized = TRUE, !.ret = "true"]

\* XylophoneApp.initialize() once initializeAudio() has returned: the
\* notice and the gesture listeners on failure.
appInitializeReturned(s, success) ==
  IF success THEN [s EXCEPT !.app.isInitialized = TRUE, !.ret = "none"]
  ELSE [s EXCEPT !.app.notice = TRUE, !.app.listening = TRUE, !.ret = "none"]

\* initHandler once initializeAudio() has returned.
initHandlerReturned(s, success) ==
  IF success THEN [s EXCEPT !.app.isInitialized = TRUE, !.app.notice = FALSE, !.app.listening = FALSE, !.ret = "none"]
  ELSE IF s.app.initializationAttempts >= MaxInitializationAttempts THEN [s EXCEPT !.app.errorShown = TRUE, !.app.listening = FALSE, !.ret = "none"]
  ELSE [s EXCEPT !.ret = "none"]

\* The rest of initialize() once resume() has settled, resolved (ok) or
\* rejected into the catch clause, and then the rest of the caller that
\* awaits it.
initializeResumed(s, call, ok) ==
  LET e == [s EXCEPT !.awaiting = @ \ {call}, !.isInitialized = ok, !.ret = IF ok THEN "true" ELSE "false"]
  IN CASE call.by = "start" -> appInitializeReturned(e, ok)
       [] call.by = "gesture" -> initHandlerReturned(e, ok)
       [] OTHER -> e

\* XylophoneApp.initialize(), up to its return or to the await inside
\* audioEngine.initialize().
appInitialize(s, backend) ==
  LET e == initializeCall([s EXCEPT !.app.started = TRUE], backend, "start")
  IN IF e.blocked \/ e.ret = "none" THEN e
     ELSE appInitializeReturned(e, e.ret = "true")

\* initHandler of setupAudioInitializationHandler, up to its return or to
\* the await inside audioEngine.initialize().
initHandler(s, backend) ==
  IF s.app.isInitialized THEN s
  ELSE LET e == initializeCall([s EXCEPT !.app.initializationAttempts = @ + 1], backend, "gesture")
       IN IF e.blocked \/ e.ret = "none" THEN e
          ELSE initHandlerReturned(e, e.ret = "true")

\* A click, touchstart or keydown on the document: initHandler runs if it
\* is registered.
gesture(s, backend) ==
  IF s.app.listening THEN initHandler(s, backend)
  ELSE s

\* AudioEngine.dispose() up to its await of audioContext.close().
disposeCall(s) ==
  IF s.audioContext = 0 THEN s
  ELSE [AudioEngine_stopAllNotes(s) EXCEPT !.awaiting = @ \cup {[call |-> "dispose", context |-> s.audioContext, by |-> "engine"]}]

\* The rest of dispose() once close() has resolved.
disposeClosed(s, call) ==
  [s EXCEPT !.awaiting = @ \ {call}, !.audioContext = 0, !.masterGain = NoGain, !.isInitialized = FALSE]

\* Math.max(0, Math.min(1, volume)), in percent.
ClampVolume(volume) == IF volume > 100 THEN 100 ELSE IF volume < 0 THEN 0 ELSE volume

\* masterGain.gain.value read at now.  setTargetAtTime(target, setAt, 0.01)
\* starts an exponential approach at setAt: at that instant the value is
\* still the one the parameter had; the clock steps of the model are far
\* longer than the 10 ms time constant, so a later read finds the target.
GainValue(gain) == IF now > gain.setAt THEN gain.target ELSE gain.value

\* AudioEngine.setVolume(volume), volume in percent; volumeAsked keeps the
\* argument of the call.
setVolume(s, volume) ==
  IF ~s.isInitialized \/ s.masterGain = NoGain THEN [s EXCEPT !.volumeAsked = volume]
  ELSE [s EXCEPT !.masterGain = [@ EXCEPT !.value = GainValue(s.masterGain), !.target = ClampVolume(volume), !.setAt = now], !.volumeAsked = volume]

\* AudioEngine.getVolume(), in percent.
getVolume(s) ==
  IF ~s.isInitialized \/ s.masterGain = NoGain THEN [s EXCEPT !.num = DefaultVolume]
  ELSE [s EXCEPT !.num = GainValue(s.masterGain)]

\* Controls.setupVolumeControl(), called by Controls.initialize(): the
\* slider is set to Math.round(audioEngine.getVolume() * 100).
setupVolumeControl(s) == [s EXCEPT !.volumeSlider = getVolume(s).num]

\* volumeInputHandler of setupVolumeControl: the user has moved the slider
\* to volumePercent.
volumeInputHandler(s, volumePercent) == [setVolume(s, volumePercent) EXCEPT !.volumeSlider = volumePercent]

\* Controls.setVolume(volumePercent)
Controls_setVolume(s, volumePercent) == [setVolume(s, ClampVolume(volumePercent)) EXCEPT !.volumeSlider = ClampVolume(volumePercent)]

(***************************************************************************)
(* Xylophone (xylophone.js).                                               *)
(***************************************************************************)
\* Xylophone.getNoteCount()
NoteCount == Len(notes)

\* isValidNoteIndex without its Number.isInteger test.
isValidNoteIndex_rangeOnly(noteIndex) == JsGeq(noteIndex, 0) /\ JsLess(noteIndex, Len(notes))

\* Xylophone.isValidNoteIndex(noteIndex)
isValidNoteIndex(noteIndex) == NumberIsInteger(noteIndex) /\ JsGeq(noteIndex, 0) /\ JsLess(noteIndex, Len(notes))

\* The admission check with > in place of >=.
PolyphonyReached_strict(s) == JsLess(s.maxPolyphony, Cardinality(s.activeNotes))

\* The admission check of Xylophone.playNote: activeNotes.size >=
\* maxPolyphony, for the value maxPolyphony holds.
PolyphonyReached(s) == JsLeq(s.maxPolyphony, Cardinality(s.activeNotes))

\* Xylophone.playNote(noteIndex).  Reading note.frequency of an undefined
\* note throws a TypeError.
Xylophone_playNote(s, noteIndex) ==
  IF JsLess(noteIndex, 0) \/ JsGeq(noteIndex, Len(notes)) THEN [s EXCEPT !.ret = "false"]
  ELSE IF PolyphonyReached(s) THEN [s EXCEPT !.ret = "false"]
  ELSE IF ~HasNoteAt(noteIndex) THEN [s EXCEPT !.ret = "throw"]
  ELSE LET a == AudioEngine_playNote(s, NoteAt(noteIndex).frequency, s.noteDuration)
           timer == Fresh(s.noteTimers, [noteIndex |-> noteIndex, fireAt |-> now + s.noteDuration, copy |-> 0])
       IN IF a.blocked \/ a.ret # "true" THEN a
          ELSE IF Cardinality(s.noteTimers) >= MaxTimers THEN [s EXCEPT !.blocked = TRUE]
          ELSE [a EXCEPT !.activeNotes = @ \cup {noteIndex}, !.noteTimers = @ \cup {timer}]

\* The callback not deleting the note index.
noteTimerFired_keepsNote(s, timer) == [s EXCEPT !.noteTimers = @ \ {timer}]

\* The setTimeout callback of Xylophone.playNote.
noteTimerFired(s, timer) == [s EXCEPT !.activeNotes = @ \ {timer.noteIndex}, !.noteTimers = @ \ {timer}]

\* Xylophone.playNoteByKey(key)
playNoteByKey(s, key) ==
  IF keyMap(key) = JUndef THEN [s EXCEPT !.ret = "false"]
  ELSE Xylophone_playNote(s, keyMap(key))

\* Xylophone.setNoteDuration(duration), for a duration in ms
setNoteDuration(s, duration) ==
  IF duration > 0 /\ duration <= NoteDurationUpperMs THEN [s EXCEPT !.noteDuration = duration]
  ELSE s

\* Xylophone.stopAllNotes()
Xylophone_stopAllNotes(s) == [AudioEngine_stopAllNotes(s) EXCEPT !.activeNotes = {}]

\* Xylophone.setMaxPolyphony(maxNotes): the value that passes the two
\* comparisons is stored as it is.
setMaxPolyphony(s, maxNotes) ==
  IF JsGreater(maxNotes, 0) /\ JsLeq(maxNotes, PolyphonyUpper) THEN [s EXCEPT !.maxPolyphony = maxNotes]
  ELSE s

(***************************************************************************)
(* VisualFeedback (visual-feedback.js), initialized with one bar per note. *)
(***************************************************************************)
\* activateBar leaving the bar's pending removal timer in place.
activateBar_keepsTimeout(s, noteIndex) ==
  IF JsLess(noteIndex, 0) \/ JsGeq(noteIndex, Len(notes)) THEN s
  ELSE LET timeout == [noteIndex |-> noteIndex, fireAt |-> now + ActiveDurationMs]
       IN [s EXCEPT !.activeBars = @ \cup {noteIndex}, !.activeTimeouts = @ \cup {timeout}, !.activated = Append(@, noteIndex)]

\* VisualFeedback.activateBar(noteIndex)
activateBar(s, noteIndex) ==
  IF JsLess(noteIndex, 0) \/ JsGeq(noteIndex, Len(notes)) THEN s
  ELSE LET cleared == {tm \in s.activeTimeouts : tm.noteIndex # noteIndex}
           timeout == [noteIndex |-> noteIndex, fireAt |-> now + ActiveDurationMs]
       IN [s EXCEPT !.activeBars = @ \cup {noteIndex}, !.activeTimeouts = cleared \cup {timeout}, !.activated = Append(@, noteIndex)]

\* The setTimeout callback of activateBar.
barTimeoutFired(s, timeout) == [s EXCEPT !.activeBars = @ \ {timeout.noteIndex}, !.activeTimeouts = {tm \in @ : tm.noteIndex # timeout.noteIndex}]

(***************************************************************************)
(* Controls (controls.js): recording.                                      *)
(***************************************************************************)
\* The value of field key of an object (the last such field), undefined if
\* it has none.
HasField(obj, key) == \E k \in 1..Len(obj.fields) : obj.fields[k][1] = key
GetField(obj, key) == IF HasField(obj, key) THEN obj.fields[CHOOSE k \in 1..Len(obj.fields) : obj.fields[k][1] = key /\ \A j \in (k+1)..Len(obj.fields) : obj.fields[j][1] # key][2] ELSE JUndef

\* The object literal { noteIndex: ..., delay: ... } recordNote pushes.
Recorded(noteIndex, delay) == JObj(<< <<"noteIndex", noteIndex>>, <<"delay", delay>> >>)

\* startRecording without its check of isPlaying.
startRecording_unguarded(s) == [s EXCEPT !.isRecording = TRUE, !.recordedSequence = <<>>, !.recordingStartTime = now]

\* Controls.startRecording()
startRecording(s) ==
  IF s.isPlaying THEN s
  ELSE [s EXCEPT !.isRecording = TRUE, !.recordedSequence = <<>>, !.recordingStartTime = now]

\* Controls.stopRecording()
stopRecording(s) ==
  IF ~s.isRecording THEN s
  ELSE [s EXCEPT !.isRecording = FALSE]

\* Controls.recordNote(noteDetail)
recordNote(s, noteDetail) ==
  IF ~s.isRecording THEN s
  ELSE IF Len(s.recordedSequence) >= s.maxRecordingLength THEN stopRecording(s)
  ELSE IF Len(s.recordedSequence) >= MaxSeqLen THEN [s EXCEPT !.blocked = TRUE]
  ELSE LET delay == noteDetail.timestamp - s.recordingStartTime
       IN [s EXCEPT !.recordedSequence = Append(@, Recorded(noteDetail.noteIndex, JInt(delay)))]

\* The notePlayed listener Controls.setupNoteListener registers.
notePlayedHandler(s, detail) ==
  IF s.isRecording THEN recordNote(s, detail)
  ELSE s

\* Controls.setMaxRecordingLength(maxLength), for an integer maxLength
setMaxRecordingLength(s, maxLength) ==
  IF maxLength > 0 /\ maxLength <= RecordingLengthUpper THEN [s EXCEPT !.maxRecordingLength = maxLength]
  ELSE s

(***************************************************************************)
(* InputHandler (input-handler.js): the trigger path.                      *)
(***************************************************************************)
\* InputHandler.emitNoteEvent(noteIndex): the event is dispatched
\* synchronously to the document's notePlayed listeners.
emitNoteEvent(s, noteIndex) ==
  LET detail == [noteIndex |-> noteIndex, timestamp |-> now]
  IN notePlayedHandler([s EXCEPT !.emitted = Append(@, detail)], detail)

\* InputHandler.handleBarActivation(noteIndex); it returns undefined.
handleBarActivation(s, noteIndex) ==
  IF ~isValidNoteIndex(noteIndex) THEN s
  ELSE LET p == Xylophone_playNote(s, noteIndex)
       IN IF p.blocked THEN p
          ELSE IF p.ret = "true" THEN [emitNoteEvent(activateBar(p, noteIndex), noteIndex) EXCEPT !.ret = "none"]
          ELSE [p EXCEPT !.ret = IF p.ret = "throw" THEN "throw" ELSE "none"]

\* InputHandler.triggerBar(noteIndex)
triggerBar(s, noteIndex) == handleBarActivation(s, noteIndex)

\* Xylophone.getNoteIndexForKey(key): null for a key that maps to nothing.
getNoteIndexForKey(key) == IF keyMap(key) = JUndef THEN JNull ELSE keyMap(key)

\* keyDownHandler without its check of keysCurrentlyPressed.
keyDownHandler_noRepeatCheck(s, key) ==
  IF getNoteIndexForKey(key) = JNull THEN s
  ELSE IF s.inputHandler.lastKeyPress[key] # NoNumber /\ now - s.inputHandler.lastKeyPress[key] < KeyDebounceTimeMs THEN s
  ELSE handleBarActivation([s EXCEPT !.inputHandler.keysCurrentlyPressed = @ \cup {key}, !.inputHandler.lastKeyPress[key] = now], getNoteIndexForKey(key))

\* keyDownHandler without its debounce check.
keyDownHandler_noDebounce(s, key) ==
  IF getNoteIndexForKey(key) = JNull THEN s
  ELSE IF key \in s.inputHandler.keysCurrentlyPressed THEN s
  ELSE handleBarActivation([s EXCEPT !.inputHandler.keysCurrentlyPressed = @ \cup {key}, !.inputHandler.lastKeyPress[key] = now], getNoteIndexForKey(key))

\* keyDownHandler of setupKeyboardEvents, for event.key = key.  Date.now()
\* lies far above keyDebounceTime, so a key without an entry in
\* lastKeyPress (read as get(key) || 0) is never found too soon.
keyDownHandler(s, key) ==
  IF getNoteIndexForKey(key) = JNull THEN s
  ELSE IF key \in s.inputHandler.keysCurrentlyPressed THEN s
  ELSE IF s.inputHandler.lastKeyPress[key] # NoNumber /\ now - s.inputHandler.lastKeyPress[key] < KeyDebounceTimeMs THEN s
  ELSE handleBarActivation([s EXCEPT !.inputHandler.keysCurrentlyPressed = @ \cup {key}, !.inputHandler.lastKeyPress[key] = now], getNoteIndexForKey(key))

\* keyUpHandler of setupKeyboardEvents, for event.key = key.
keyUpHandler(s, key) == [s EXCEPT !.inputHandler.keysCurrentlyPressed = @ \ {key}]

\* clickHandler without its check of touchActive.
clickHandler_noTouchCheck(s, index) == handleBarActivation(s, index)

\* clickHandler of setupMouseEvents, for the bar at index.
clickHandler(s, index) ==
  IF s.inputHandler.touchActive THEN s
  ELSE handleBarActivation(s, index)

\* touchStartHandler of setupTouchEvents, for the bar at index: a pending
\* reset timer is cleared and a new one set.  touchTimeout keeps the time
\* the pending timer is set for; the handle of a timer that has fired acts
\* like null (clearTimeout does nothing with it) and is NoNumber here.
touchStartHandler(s, index) == handleBarActivation([s EXCEPT !.inputHandler.touchActive = TRUE, !.inputHandler.touchTimeout = now + TouchDebounceTimeMs], index)

\* The setTimeout callback of touchStartHandler.
touchTimeoutFired(s) == [s EXCEPT !.inputHandler.touchActive = FALSE, !.inputHandler.touchTimeout = NoNumber]


(***************************************************************************)
(* Controls (controls.js): playback.                                       *)
(***************************************************************************)
\* stopPlayback leaving the pending timer of the loop in place.
stopPlayback_keepTimer(s) ==
  IF ~s.isPlaying THEN s
  ELSE [s EXCEPT !.isPlaying = FALSE, !.playbackTimeout = "null"]

\* stopPlayback silencing the voices that sound as well.
stopPlayback_stopsNotes(s) ==
  IF ~s.isPlaying THEN s
  ELSE Xylophone_stopAllNotes([s EXCEPT !.isPlaying = FALSE, !.playbackTimeout = "null", !.playback = IF s.playbackTimeout # "null" THEN NoPlayback ELSE @])

\* Controls.stopPlayback().  clearTimeout on the pending timer leaves the
\* loop that awaits it suspended for good.
stopPlayback(s) ==
  IF ~s.isPlaying THEN s
  ELSE [s EXCEPT !.isPlaying = FALSE, !.playbackTimeout = "null", !.playback = IF s.playbackTimeout # "null" THEN NoPlayback ELSE @]

\* inputHandler.triggerBar(note.noteIndex) called by the loop of playback
\* run for the recorded event i.
triggerRecorded(s, run, i, note) == triggerBar([s EXCEPT !.triggered = Append(@, [run |-> run, i |-> i, noteIndex |-> GetField(note, "noteIndex")]), !.playbackRun.done = @ + 1], GetField(note, "noteIndex"))

\* playSequenceWithTiming triggering every event when its turn comes,
\* without waiting for its time.
RECURSIVE playSequenceWithTiming_noWait(_, _, _, _)
playSequenceWithTiming_noWait(s, run, i, startTime) ==
  IF s.blocked THEN s
  ELSE IF ~(i < Len(s.recordedSequence)) THEN s
  ELSE IF ~s.isPlaying THEN s
  ELSE playSequenceWithTiming_noWait(triggerRecorded(s, run, i, s.recordedSequence[i + 1]), run, i + 1, startTime)

\* playSequenceWithTiming awaiting a timer before every event, of 0 ms for
\* an event whose time has come.
RECURSIVE playSequenceWithTiming_alwaysWaits(_, _, _, _)
playSequenceWithTiming_alwaysWaits(s, run, i, startTime) ==
  IF s.blocked THEN s
  ELSE IF ~(i < Len(s.recordedSequence)) THEN s
  ELSE IF ~s.isPlaying THEN s
  ELSE LET note == s.recordedSequence[i + 1]
           twiceWaitTime == 2 * (startTime - now) + TwiceToNumber(GetField(note, "delay"))
       IN [s EXCEPT !.playbackTimeout = "handle", !.playback = [waiting |-> TRUE, run |-> run, i |-> i, startTime |-> startTime, fireAt |-> IF twiceWaitTime > 0 THEN now + (twiceWaitTime \div 2) ELSE now, note |-> note]]

\* Controls.playSequenceWithTiming() of playback run, from iteration i on,
\* until the loop suspends at its await (playback.waiting) or returns.
RECURSIVE playSequenceWithTiming(_, _, _, _)
playSequenceWithTiming(s, run, i, startTime) ==
  IF s.blocked THEN s
  ELSE IF ~(i < Len(s.recordedSequence)) THEN s
  ELSE IF ~s.isPlaying THEN s
  ELSE LET note == s.recordedSequence[i + 1]
           twiceWaitTime == 2 * (startTime - now) + TwiceToNumber(GetField(note, "delay"))
       IN IF twiceWaitTime > 0
          THEN [s EXCEPT !.playbackTimeout = "handle", !.playback = [waiting |-> TRUE, run |-> run, i |-> i, startTime |-> startTime, fireAt |-> now + (twiceWaitTime \div 2), note |-> note]]
          ELSE playSequenceWithTiming(triggerRecorded(s, run, i, note), run, i + 1, startTime)

\* playRecording without its finally clause.
playRecordingFinally_skipped(s) ==
  IF s.blocked \/ s.playback.waiting THEN s
  ELSE [s EXCEPT !.ret = "none", !.playbackRun.settled = @ \cup {s.playbackRun.id}]

\* The rest of Controls.playRecording() once playSequenceWithTiming has
\* returned: the finally clause, after which the call returns.
playRecordingFinally(s) ==
  IF s.blocked \/ s.playback.waiting THEN s
  ELSE [stopPlayback(s) EXCEPT !.ret = "none", !.playbackRun.settled = @ \cup {s.playbackRun.id}]

\* Controls.playRecording(), up to its first suspension.
playRecording(s) ==
  IF Len(s.recordedSequence) = 0 THEN s
  ELSE IF s.isPlaying THEN s
  ELSE IF s.playbackRun.id >= MaxPlaybacks THEN [s EXCEPT !.blocked = TRUE]
  ELSE playRecordingFinally(playSequenceWithTiming([s EXCEPT !.isPlaying = TRUE, !.playbackRun = [id |-> @.id + 1, start |-> now, done |-> 0, settled |-> @.settled]], s.playbackRun.id + 1, 0, now))

\* The playback timer fires: the loop resumes after its await with the note
\* it read before suspending.
playbackTimerFired(s) ==
  LET resumed == [s EXCEPT !.playback = NoPlayback]
      played == IF resumed.isPlaying THEN triggerRecorded(resumed, s.playback.run, s.playback.i, s.playback.note) ELSE resumed
  IN playRecordingFinally(playSequenceWithTiming(played, s.playback.run, s.playback.i + 1, s.playback.startTime))

\* Controls.clearRecording()
clearRecording(s) == [(IF s.isPlaying THEN stopPlayback(s) ELSE s) EXCEPT !.recordedSequence = <<>>]

(***************************************************************************)
(* JSON text: a sequence of tokens.  Punctuation, the literals, a quote    *)
(* and the content of a string are one token each; a number is spelled     *)
(* token by token ("-", digits, "."); "\n" and " " are white space.        *)
(***************************************************************************)
DigitTokens == <<"0", "1", "2", "3", "4", "5", "6", "7", "8", "9">>
IsDigit(tok) == \E d \in 1..10 : DigitTokens[d] = tok
DigitValue(tok) == (CHOOSE d \in 1..10 : DigitTokens[d] = tok) - 1

\* The decimal digits of a natural number.
RECURSIVE Digits(_)
Digits(n) == IF n < 10 THEN <<DigitTokens[n + 1]>> ELSE Digits(n \div 10) \o <<DigitTokens[(n % 10) + 1]>>

\* Number::toString of an integer and of k + 0.5.
NumberText(x) ==
  IF x.t = "int" THEN (IF x.v < 0 THEN <<"-">> \o Digits(-x.v) ELSE Digits(x.v))
  ELSE (IF x.v < 0 THEN <<"-">> \o Digits(-x.v - 1) ELSE Digits(x.v)) \o <<".", "5">>

Spaces(n) == [k \in 1..n |-> " "]

\* JSON.stringify omits a property whose value is undefined or a function.
Serializable(x) == x.t \notin {"undef", "func"}

\* JSON.stringify(value, null, 2) of a value nested at the given
\* indentation; in an array undefined and functions are written null.
RECURSIVE Stringify(_, _)
RECURSIVE StringifyItems(_, _, _)
RECURSIVE StringifyFields(_, _, _)
Stringify(x, indent) ==
  CASE x.t \in {"int", "frac"} -> NumberText(x)
    [] x.t = "bool" -> <<IF x.b THEN "true" ELSE "false">>
    [] x.t = "str" -> (IF x.s = "" THEN <<"\"", "\"">> ELSE <<"\"", x.s, "\"">>)
    [] x.t = "arr" -> (IF Len(x.items) = 0 THEN <<"[", "]">> ELSE <<"[">> \o StringifyItems(x.items, 1, indent + 2) \o <<"\n">> \o Spaces(indent) \o <<"]">>)
    [] x.t = "obj" -> (LET kept == SelectSeq(x.fields, LAMBDA f : Serializable(f[2])) IN IF Len(kept) = 0 THEN <<"{", "}">> ELSE <<"{">> \o StringifyFields(kept, 1, indent + 2) \o <<"\n">> \o Spaces(indent) \o <<"}">>)
    [] OTHER -> <<"null">>
StringifyItems(items, k, indent) ==
  IF k > Len(items) THEN <<>>
  ELSE (IF k > 1 THEN <<",">> ELSE <<>>) \o <<"\n">> \o Spaces(indent) \o Stringify(items[k], indent) \o StringifyItems(items, k + 1, indent)
StringifyFields(fields, k, indent) ==
  IF k > Len(fields) THEN <<>>
  ELSE (IF k > 1 THEN <<",">> ELSE <<>>) \o <<"\n">> \o Spaces(indent) \o <<"\"", fields[k][1], "\"", ":", " ">> \o Stringify(fields[k][2], indent) \o StringifyFields(fields, k + 1, indent)

\* JSON.stringify(value, null, 2)
JSONstringify(x) == Stringify(x, 0)

\* JSON.parse: a recursive descent over the tokens.  A parse yields
\* [ok, value, pos], pos the first token after the value.
ParseFail == [ok |-> FALSE, value |-> JUndef, pos |-> 0]
Parsed(value, pos) == [ok |-> TRUE, value |-> value, pos |-> pos]
TokenIs(text, pos, tok) == pos <= Len(text) /\ text[pos] = tok

RECURSIVE SkipWs(_, _)
SkipWs(text, pos) == IF pos <= Len(text) /\ text[pos] \in {" ", "\n"} THEN SkipWs(text, pos + 1) ELSE pos

RECURSIVE ParseDigits(_, _, _)
ParseDigits(text, pos, acc) == IF pos <= Len(text) /\ IsDigit(text[pos]) THEN ParseDigits(text, pos + 1, acc * 10 + DigitValue(text[pos])) ELSE [value |-> acc, pos |-> pos]

\* A number: an optional "-", an integer part without a leading zero, and
\* an optional fraction, of which the model's numbers have only ".5".
ParseNumber(text, pos) ==
  LET neg == TokenIs(text, pos, "-")
      first == IF neg THEN pos + 1 ELSE pos
      int == ParseDigits(text, first, 0)
  IN IF first > Len(text) \/ ~IsDigit(text[first]) THEN ParseFail
     ELSE IF text[first] = "0" /\ int.pos > first + 1 THEN ParseFail
     ELSE IF TokenIs(text, int.pos, ".")
          THEN (IF TokenIs(text, int.pos + 1, "5") /\ ~(int.pos + 2 <= Len(text) /\ IsDigit(text[int.pos + 2])) THEN Parsed(JFrac(IF neg THEN -int.value - 1 ELSE int.value), int.pos + 2) ELSE ParseFail)
          ELSE Parsed(JInt(IF neg THEN -int.value ELSE int.value), int.pos)

\* A string, pos at its opening quote.
ParseString(text, pos) ==
  IF TokenIs(text, pos + 1, "\"") THEN Parsed(JStr(""), pos + 2)
  ELSE IF TokenIs(text, pos + 2, "\"") THEN Parsed(JStr(text[pos + 1]), pos + 3)
  ELSE ParseFail

RECURSIVE ParseValue(_, _)
RECURSIVE ParseItems(_, _, _)
RECURSIVE ParseFields(_, _, _)
ParseValue(text, start) ==
  LET pos == SkipWs(text, start)
  IN IF pos > Len(text) THEN ParseFail
     ELSE CASE text[pos] = "null" -> Parsed(JNull, pos + 1)
            [] text[pos] = "true" -> Parsed(JBool(TRUE), pos + 1)
            [] text[pos] = "false" -> Parsed(JBool(FALSE), pos + 1)
            [] text[pos] = "\"" -> ParseString(text, pos)
            [] text[pos] = "-" \/ IsDigit(text[pos]) -> ParseNumber(text, pos)
            [] text[pos] = "[" -> (IF TokenIs(text, SkipWs(text, pos + 1), "]") THEN Parsed(JArr(<<>>), SkipWs(text, pos + 1) + 1) ELSE ParseItems(text, pos + 1, <<>>))
            [] text[pos] = "{" -> (IF TokenIs(text, SkipWs(text, pos + 1), "}") THEN Parsed(JObj(<<>>), SkipWs(text, pos + 1) + 1) ELSE ParseFields(text, pos + 1, <<>>))
            [] OTHER -> ParseFail
\* The items of an array from pos on, after those already read.
ParseItems(text, pos, items) ==
  LET item == ParseValue(text, pos)
      next == SkipWs(text, item.pos)
  IN IF ~item.ok THEN ParseFail
     ELSE IF TokenIs(text, next, ",") THEN ParseItems(text, next + 1, Append(items, item.value))
     ELSE IF TokenIs(text, next, "]") THEN Parsed(JArr(Append(items, item.value)), next + 1)
     ELSE ParseFail
\* The fields of an object from pos on, after those already read.
ParseFields(text, pos, fields) ==
  LET keyAt == SkipWs(text, pos)
      key == IF TokenIs(text, keyAt, "\"") THEN ParseString(text, keyAt) ELSE ParseFail
      colon == SkipWs(text, key.pos)
      val == IF key.ok /\ TokenIs(text, colon, ":") THEN ParseValue(text, colon + 1) ELSE ParseFail
      next == SkipWs(text, val.pos)
  IN IF ~val.ok THEN ParseFail
     ELSE IF TokenIs(text, next, ",") THEN ParseFields(text, next + 1, Append(fields, <<key.value.s, val.value>>))
     ELSE IF TokenIs(text, next, "}") THEN Parsed(JObj(Append(fields, <<key.value.s, val.value>>)), next + 1)
     ELSE ParseFail

\* JSON.parse(text): ok is false where it throws a SyntaxError.
JSONparse(text) ==
  LET r == ParseValue(text, 1)
  IN IF r.ok /\ SkipWs(text, r.pos) > Len(text) THEN r ELSE ParseFail

(***************************************************************************)
(* Controls (controls.js): export and import.                              *)
(***************************************************************************)
\* Controls.exportSequence()
exportSequence(s) == JSONstringify(JArr(s.recordedSequence))

\* note.noteIndex and note.delay of an array element: a property of an
\* object; undefined on a primitive or an array (on null the access throws,
\* which importSequence catches like a failed check).
Property(x, key) == IF x.t = "obj" THEN GetField(x, key) ELSE JUndef

\* The element check written with truthiness (!note.delay) for the delay.
ValidNoteFormat_truthy(note) == TypeofNumber(Property(note, "noteIndex")) /\ JsGreater(Property(note, "delay"), 0)

\* The check importSequence makes of one element.
ValidNoteFormat(note) == TypeofNumber(Property(note, "noteIndex")) /\ TypeofNumber(Property(note, "delay"))

\* importSequence storing the elements as it validates them: a failed
\* import leaves the elements before the first invalid one.
importSequence_partial(s, jsonString) ==
  LET parsed == JSONparse(jsonString)
  IN IF ~parsed.ok THEN [s EXCEPT !.ret = "false"]
     ELSE IF parsed.value.t # "arr" THEN [s EXCEPT !.ret = "false"]
     ELSE IF \E k \in 1..Len(parsed.value.items) : ~ValidNoteFormat(parsed.value.items[k])
          THEN LET bad == CHOOSE k \in 1..Len(parsed.value.items) : ~ValidNoteFormat(parsed.value.items[k]) /\ \A j \in 1..(k - 1) : ValidNoteFormat(parsed.value.items[j])
               IN [s EXCEPT !.recordedSequence = SubSeq(parsed.value.items, 1, bad - 1), !.ret = "false"]
     ELSE [s EXCEPT !.recordedSequence = parsed.value.items, !.ret = "true"]

\* Controls.importSequence(jsonString)
importSequence(s, jsonString) ==
  LET parsed == JSONparse(jsonString)
  IN IF ~parsed.ok THEN [s EXCEPT !.ret = "false"]
     ELSE IF parsed.value.t # "arr" THEN [s EXCEPT !.ret = "false"]
     ELSE IF \E k \in 1..Len(parsed.value.items) : ~ValidNoteFormat(parsed.value.items[k]) THEN [s EXCEPT !.ret = "false"]
     ELSE [s EXCEPT !.recordedSequence = parsed.value.items, !.ret = "true"]


(***************************************************************************)
(* Inputs.                                                                 *)
(***************************************************************************)
\* Arguments of a trigger: valid indices, and invalid ones of every kind.
TriggerArgs == {JInt(0), JInt(1), JInt(-1), JInt(11), JFrac(1), JUndef}
\* Bars a gesture can hit while recording.
GestureBars == {JInt(0)}
\* Bars of the notePlayed events handed to recordNote.
RecordBars == {JInt(0)}
\* Keys: mapped ones, an unmapped one, and a name Object.prototype defines.
Keys == {"a", "z", "toString"}
\* Arguments of setMaxPolyphony and setMaxRecordingLength.
PolyphonyArgs == {0, 1, 51}
RecordingLengthArgs == {0, 1, 2, 501}
\* Arguments of setMaxPolyphony of every kind: integers in and out of
\* range, non-integers, numeric strings, and values that are not numbers.
PolyphonyValues == {JInt(0), JInt(1), JInt(2), JInt(0 - 1), JInt(50), JInt(51), JFrac(0), JFrac(1), JFrac(50), JStr("2"), JStr("abc"), JBool(TRUE), JNaN, JNull, JUndef}
\* Arguments of setNoteDuration, in ms: the bounds of the accepted range,
\* values on both sides of them, and durations around attack + decay.
DurationValues == {0, 1, 50, 105, 500, 10000, 10001}
\* What the backend does when initialize() asks for an audio context.
Backends == {"none", "running", "suspended"}
\* Bars struck in the engine specification.
EngineBars == {JInt(0), JInt(10)}
\* Arguments of setNoteDuration, in ms.
NoteDurationArgs == {0, 500, 10001}
\* Arguments of setVolume, in percent.
VolumeArgs == {0 - 10, 50, 150}

\* The values whose JSON texts importSequence is given.
ImportValues == <<
    JArr(<<Recorded(JInt(2), JInt(-5))>>),
    JArr(<<Recorded(JInt(0), JInt(0)), Recorded(JFrac(1), JInt(50))>>),
    JArr(<<Recorded(JInt(0), JInt(0)), Recorded(JStr("3"), JInt(50))>>),
    JArr(<<Recorded(JInt(1), JInt(0)), JObj(<< <<"noteIndex", JInt(0)>> >>)>>),
    JArr(<<Recorded(JInt(1), JInt(0)), JNull>>),
    Recorded(JInt(0), JInt(0)),
    JArr(<<>>),
    JInt(5)
  >>
\* Texts that are not JSON.
MalformedTexts == << <<>>, <<"[", "{">> >>
\* The texts importSequence is given, by input number.
ImportTexts == [k \in 1..Len(ImportValues) |-> JSONstringify(ImportValues[k])] \o MalformedTexts
\* Sequences imported to be played, and their texts, numbered after
\* ImportTexts.
ReplayValues == <<
    JArr(<<Recorded(JInt(0), JInt(0)), Recorded(JInt(1), JInt(50)), Recorded(JInt(0), JInt(100))>>),
    JArr(<<Recorded(JInt(1), JInt(50))>>)
  >>
ReplayTexts == [k \in 1..Len(ReplayValues) |-> JSONstringify(ReplayValues[k])]
\* Sequences with delays that are negative or zero, and their texts,
\* numbered after ReplayTexts.
EarlyValues == <<
    JArr(<<Recorded(JInt(0), JInt(50)), Recorded(JInt(1), JInt(-5)), Recorded(JInt(0), JInt(0))>>),
    JArr(<<Recorded(JInt(2), JInt(-5))>>),
    JArr(<<Recorded(JInt(1), JInt(0)), Recorded(JInt(0), JInt(-5)), Recorded(JInt(1), JInt(100))>>)
  >>
EarlyTexts == [k \in 1..Len(EarlyValues) |-> JSONstringify(EarlyValues[k])]

(***************************************************************************)
(* Actions: one per call, event or callback.                               *)
(***************************************************************************)
NoArg == JUndef
NoInput == 0 - 1
\* An action that leaves the recorder's export untouched.
Step(s, op, arg) == Commit(s, op, arg, NoInput) /\ UNCHANGED <<now, exported, exportedFrom>>

\* AudioEngine.initialize(): the backend starts (ok) or the attempt fails.
initialize(s, ok) ==
  IF s.isInitialized THEN [s EXCEPT !.ret = "true"]
  ELSE IF ok THEN [s EXCEPT !.audioContext = s.contextsCreated + 1, !.masterGain = NewGain(s.contextsCreated + 1), !.contextsCreated = @ + 1, !.isInitialized = TRUE, !.ret = "true"]
  ELSE [s EXCEPT !.isInitialized = FALSE, !.ret = "false"]

Initialize == \E ok \in BOOLEAN : Step(initialize(Cur, ok), "initialize", NoArg)

PlayNote == \E x \in TriggerArgs : Step(Xylophone_playNote(Cur, x), "playNote", x)

PlayNoteByKey == \E key \in Keys : Step(playNoteByKey(Cur, key), "playNoteByKey", keyMap(key))

HandleBarActivation == \E x \in TriggerArgs : Step(handleBarActivation(Cur, x), "handleBarActivation", x)

StopAllNotes == Step(Xylophone_stopAllNotes(Cur), "stopAllNotes", NoArg)

SetMaxPolyphony == \E n \in PolyphonyArgs : Step(setMaxPolyphony(Cur, JInt(n)), "setMaxPolyphony", JInt(n))

NoteTimerFire == \E timer \in noteTimers : now >= timer.fireAt /\ Step(noteTimerFired(Cur, timer), "noteTimer", NoArg)

OnEnded == \E oscillator \in activeOscillators : now >= oscillator.stopAt /\ Step(onended(Cur, oscillator), "onended", NoArg)

BarTimeoutFire == \E timeout \in activeTimeouts : now >= timeout.fireAt /\ Step(barTimeoutFired(Cur, timeout), "barTimeout", NoArg)

\* A callback of the voice bookkeeping, of the visual pulse or of the touch
\* debounce is due.
CallbackDue ==
  \/ \E timer \in noteTimers : now >= timer.fireAt
  \/ \E oscillator \in activeOscillators : now >= oscillator.stopAt
  \/ \E timeout \in activeTimeouts : now >= timeout.fireAt
  \/ inputHandler.touchTimeout # NoNumber /\ now >= inputHandler.touchTimeout

\* The clock advances by step, up to the horizon, once the callbacks that
\* are due have run.
Advance(step, horizon) ==
  /\ now + step <= horizon
  /\ ~CallbackDue
  /\ now' = now + step
  /\ last' = [op |-> "tick", arg |-> NoArg, input |-> NoInput, ret |-> "none", num |-> NoNumber, emitted |-> <<>>, activated |-> <<>>, triggered |-> <<>>, was |-> Was]
  /\ UNCHANGED <<isInitialized, activeOscillators, activeNotes, noteTimers, maxPolyphony, activeBars, activeTimeouts, isRecording, isPlaying, recordedSequence, recordingStartTime, maxRecordingLength, playbackTimeout, playback, exported, exportedFrom, noteDuration, audioContext, masterGain, contextsCreated, awaiting, app, volumeAsked, playbackRun, inputHandler, keysHeld, lastTouchAt, lastKeyNoteAt, volumeSlider>>

Tick == Advance(TickMs, MaxTicks * TickMs)

\* Recorder actions.
Gesture == \E x \in GestureBars : Step(handleBarActivation(Cur, x), "handleBarActivation", x)

StartRecording == Step(startRecording(Cur), "startRecording", NoArg)

StopRecording == Step(stopRecording(Cur), "stopRecording", NoArg)

RecordNote == \E x \in RecordBars : Step(recordNote(Cur, [noteIndex |-> x, timestamp |-> now]), "recordNote", x)

PlayRecording == Step(playRecording(Cur), "playRecording", NoArg)

StopPlayback == Step(stopPlayback(Cur), "stopPlayback", NoArg)

ClearRecording == Step(clearRecording(Cur), "clearRecording", NoArg)

SetMaxRecordingLength == \E n \in RecordingLengthArgs : Step(setMaxRecordingLength(Cur, n), "setMaxRecordingLength", JInt(n))

PlaybackTimerFire == playback.waiting /\ now >= playback.fireAt /\ Step(playbackTimerFired(Cur), "playbackTimer", NoArg)

ImportSequence == \E k \in 1..Len(ImportTexts) : Commit(importSequence(Cur, ImportTexts[k]), "importSequence", NoArg, k) /\ UNCHANGED <<now, exported, exportedFrom>>

RecTick == Advance(RecTickMs, RecMaxTicks * RecTickMs)

\* Export and re-import.
ExportSequence ==
  /\ exported' = exportSequence(Cur)
  /\ exportedFrom' = recordedSequence
  /\ Commit(Cur, "exportSequence", NoArg, NoInput)
  /\ UNCHANGED now

\* The text of an earlier export is imported (input number 0).
ImportExported == exported # <<>> /\ Commit(importSequence(Cur, exported), "importSequence", NoArg, 0) /\ UNCHANGED <<now, exported, exportedFrom>>

\* The audio engine's life cycle.
InitializeCall == \E backend \in Backends : Step(initializeCall(Cur, backend, "engine"), "initialize", JStr(backend))

InitializeResumed == \E call \in awaiting : call.call = "initialize" /\ \E ok \in BOOLEAN : Step(initializeResumed(Cur, call, ok), "initializeResumed", JBool(ok))

Dispose == Step(disposeCall(Cur), "dispose", NoArg)

DisposeClosed == \E call \in awaiting : call.call = "dispose" /\ Step(disposeClosed(Cur, call), "disposeClosed", NoArg)

Strike == \E x \in EngineBars : Step(Xylophone_playNote(Cur, x), "playNote", x)

\* Xylophone.playNote while the backend throws at a step of the engine's
\* try block; the step is kept as the input of the call.
StrikeThrowing == \E x \in EngineBars : \E step \in ThrowSteps : Commit(Xylophone_playNote([Cur EXCEPT !.throwsAt = step], x), "playNote", x, step) /\ UNCHANGED <<now, exported, exportedFrom>>

SetMaxPolyphonyTo == \E x \in PolyphonyValues : Step(setMaxPolyphony(Cur, x), "setMaxPolyphony", x)

SetNoteDurationTo == \E d \in DurationValues : Step(setNoteDuration(Cur, d), "setNoteDuration", JInt(d))

SetNoteDuration == \E d \in NoteDurationArgs : Step(setNoteDuration(Cur, d), "setNoteDuration", JInt(d))

\* XylophoneApp: its start and the gestures on the document.
AppInitialize == ~app.started /\ \E backend \in Backends : Step(appInitialize(Cur, backend), "appInitialize", JStr(backend))

AppGesture == \E backend \in Backends : Step(gesture(Cur, backend), "gesture", JStr(backend))

\* The master volume.
SetVolume == \E v \in VolumeArgs : Step(setVolume(Cur, v), "setVolume", JInt(v))

GetVolume == Step(getVolume(Cur), "getVolume", NoArg)

\* Positions the user moves the volume slider to, in percent.
SliderPositions == {0, 30, 100}

SliderInput == \E v \in SliderPositions : Step(volumeInputHandler(Cur, v), "sliderInput", JInt(v))

ControlsSetVolume == \E v \in VolumeArgs : Step(Controls_setVolume(Cur, v), "controlsSetVolume", JInt(v))

\* Controls.initialize() called again: the slider is set from the engine.
ControlsInitialize == Step(setupVolumeControl(Cur), "controlsInitialize", NoArg)

\* A sequence to play is imported while the recorder is idle.
LoadIdle == ~isPlaying /\ ~isRecording /\ \E k \in 1..Len(ReplayTexts) : Commit(importSequence(Cur, ReplayTexts[k]), "importSequence", NoArg, Len(ImportTexts) + k) /\ UNCHANGED <<now, exported, exportedFrom>>

\* A sequence to play is imported, whatever the recorder is doing.
LoadSequence == \E k \in 1..Len(ReplayTexts) : Commit(importSequence(Cur, ReplayTexts[k]), "importSequence", NoArg, Len(ImportTexts) + k) /\ UNCHANGED <<now, exported, exportedFrom>>

\* A sequence with non-positive delays is imported while the recorder is
\* idle.
LoadEarly == ~isPlaying /\ ~isRecording /\ \E k \in 1..Len(EarlyTexts) : Commit(importSequence(Cur, EarlyTexts[k]), "importSequence", NoArg, Len(ImportTexts) + Len(ReplayTexts) + k) /\ UNCHANGED <<now, exported, exportedFrom>>

\* The recorded events all fall due before the recorder's clock horizon if
\* played from now on.
FitsHorizon == \A k \in 1..Len(recordedSequence) : now + (TwiceToNumber(GetField(recordedSequence[k], "delay")) \div 2) <= RecMaxTicks * RecTickMs

\* playRecording of a sequence whose end lies within the horizon.
Replay == FitsHorizon /\ Step(playRecording(Cur), "playRecording", NoArg)

\* The keys of the keyboard events delivered: two that map to note 0, one
\* that maps to no note, and a name Object.prototype defines.
KeyboardKeys == {"a", "A", "z", "toString"}

\* InputHandler as constructed: no key pressed, no press time kept (a key
\* without an entry has NoNumber), no touch active, no touch timer
\* (NoNumber for null, else the time the timer is set for), no listener
\* registered.
InputHandlerConstructed == [keysCurrentlyPressed |-> {}, lastKeyPress |-> [key \in KeyboardKeys |-> NoNumber], touchActive |-> FALSE, touchTimeout |-> NoNumber, listening |-> FALSE]

\* InputHandler once XylophoneApp.initialize() has called its initialize().
InputHandlerInitialized == [InputHandlerConstructed EXCEPT !.listening = TRUE]

\* InputHandler.initialize(), with the bars in the document: the mouse,
\* touch and keyboard listeners are registered.
inputInitialize(s) == [s EXCEPT !.inputHandler.listening = TRUE, !.ret = "true"]

\* InputHandler.dispose(): the listeners are removed, the pending touch
\* timer is cleared, the key sets are emptied.
inputDispose(s) == [s EXCEPT !.inputHandler.listening = FALSE, !.inputHandler.touchTimeout = NoNumber, !.inputHandler.keysCurrentlyPressed = {}, !.inputHandler.lastKeyPress = [key \in KeyboardKeys |-> NoNumber]]

\* InputHandler.initialize() is called once the handler is constructed or
\* disposed of.
InputInitialize == ~inputHandler.listening /\ Step(inputInitialize(Cur), "inputInitialize", NoArg)

InputDispose == Step(inputDispose(Cur), "inputDispose", NoArg)

\* Keyboard events on the document, delivered to the handlers while they
\* are registered.  keysHeld keeps the keys whose keydown
\* triggered a note (a notePlayed event was dispatched) and that no keyup
\* has released since, lastKeyNoteAt when the last such keydown of a key
\* was delivered.
KeyDown == inputHandler.listening /\ \E key \in KeyboardKeys : LET s == keyDownHandler(Cur, key) IN Step([s EXCEPT !.keysHeld = IF s.emitted # <<>> THEN @ \cup {key} ELSE @, !.lastKeyNoteAt[key] = IF s.emitted # <<>> THEN now ELSE @], "keydown", JStr(key))

KeyUp == inputHandler.listening /\ \E key \in KeyboardKeys : Step([keyUpHandler(Cur, key) EXCEPT !.keysHeld = @ \ {key}], "keyup", JStr(key))

\* Bars of the pointer events.
PointerBars == {JInt(0), JInt(1)}

\* Pointer events on a bar, delivered to the handlers while they are
\* registered.  lastTouchAt keeps when the last touchstart was
\* delivered.
TouchStart == inputHandler.listening /\ \E x \in PointerBars : Step([touchStartHandler(Cur, x) EXCEPT !.lastTouchAt = now], "touchstart", x)

Click == inputHandler.listening /\ \E x \in PointerBars : Step(clickHandler(Cur, x), "click", x)

TouchTimeoutFire == inputHandler.touchTimeout # NoNumber /\ now >= inputHandler.touchTimeout /\ Step(touchTimeoutFired(Cur), "touchTimeout", NoArg)

PulseTick == Advance(PulseTickMs, PulseMaxTicks * PulseTickMs)

\* Bars given to VisualFeedback.activateBar: two bars and two indices out of
\* range.
PulseBars == {JInt(0), JInt(1), JInt(0 - 1), JInt(11)}

\* VisualFeedback.activateBar called while the removal it schedules falls
\* within the clock's horizon.
ActivateBar == now + ActiveDurationMs <= PulseMaxTicks * PulseTickMs /\ \E x \in PulseBars : Step(activateBar(Cur, x), "activateBar", x)

\* A bar is struck while the voice's scheduled stop falls within the
\* clock's horizon.
StrikeWithin == now + noteDuration + ReleaseMs <= MaxTicks * TickMs /\ Strike

\* XylophoneApp as constructed: not initialized, no attempt made, no notice
\* shown, no gesture listener registered, initialize() not yet called.
AppConstructed == [isInitialized |-> FALSE, initializationAttempts |-> 0, notice |-> FALSE, listening |-> FALSE, started |-> FALSE, errorShown |-> FALSE]

\* The record of the last call before any call was made.
FirstLast(x) == [op |-> "init", arg |-> x, input |-> NoInput, ret |-> "none", num |-> NoNumber, emitted |-> <<>>, activated |-> <<>>, triggered |-> <<>>, was |-> [isRecording |-> FALSE, isPlaying |-> FALSE, waiting |-> FALSE, isInitialized |-> FALSE, activeBars |-> {}]]

(***************************************************************************)
(* Specifications.                                                         *)
(***************************************************************************)
\* The program once XylophoneApp.initialize() has set up the modules that
\* need no audio context; the audio engine is as constructed, so that
\* Controls.initialize() has set the volume slider to the default volume.
Init ==
  /\ now = 0
  /\ isInitialized = FALSE
  /\ activeOscillators = {}
  /\ activeNotes = {}
  /\ noteTimers = {}
  /\ maxPolyphony = JInt(DefaultMaxPolyphony)
  /\ activeBars = {}
  /\ activeTimeouts = {}
  /\ isRecording = FALSE
  /\ isPlaying = FALSE
  /\ recordedSequence = <<>>
  /\ recordingStartTime = 0
  /\ maxRecordingLength = DefaultMaxRecordingLength
  /\ playbackTimeout = "null"
  /\ playback = NoPlayback
  /\ exported = <<>>
  /\ exportedFrom = <<>>
  /\ noteDuration = DefaultNoteDurationMs
  /\ contextsCreated = 0
  /\ audioContext = 0
  /\ masterGain = NoGain
  /\ awaiting = {}
  /\ app = AppConstructed
  /\ volumeAsked = NoNumber
  /\ playbackRun = NoRun
  /\ inputHandler = InputHandlerInitialized
  /\ keysHeld = {}
  /\ lastTouchAt = NoNumber
  /\ lastKeyNoteAt = [key \in KeyboardKeys |-> NoNumber]
  /\ volumeSlider = DefaultVolume
  /\ last = FirstLast(NoArg)

\* Voices: the audio engine, the xylophone, the trigger path, the clock.
Next ==
  \/ Initialize
  \/ PlayNote
  \/ PlayNoteByKey
  \/ HandleBarActivation
  \/ StopAllNotes
  \/ SetMaxPolyphony
  \/ NoteTimerFire
  \/ OnEnded
  \/ BarTimeoutFire
  \/ Tick

Spec == Init /\ [][Next]_vars

\* The recorder, with the audio engine initialized by an earlier gesture.
InitRec ==
  /\ now = 0
  /\ isInitialized = TRUE
  /\ activeOscillators = {}
  /\ activeNotes = {}
  /\ noteTimers = {}
  /\ maxPolyphony = JInt(DefaultMaxPolyphony)
  /\ activeBars = {}
  /\ activeTimeouts = {}
  /\ isRecording = FALSE
  /\ isPlaying = FALSE
  /\ recordedSequence = <<>>
  /\ recordingStartTime = 0
  /\ maxRecordingLength = DefaultMaxRecordingLength
  /\ playbackTimeout = "null"
  /\ playback = NoPlayback
  /\ exported = <<>>
  /\ exportedFrom = <<>>
  /\ noteDuration = DefaultNoteDurationMs
  /\ contextsCreated = 1
  /\ audioContext = 1
  /\ masterGain = NewGain(1)
  /\ awaiting = {}
  /\ app = AppConstructed
  /\ volumeAsked = NoNumber
  /\ playbackRun = NoRun
  /\ inputHandler = InputHandlerInitialized
  /\ keysHeld = {}
  /\ lastTouchAt = NoNumber
  /\ lastKeyNoteAt = [key \in KeyboardKeys |-> NoNumber]
  /\ volumeSlider = DefaultVolume
  /\ last = FirstLast(NoArg)

\* Recording and import: what the recorded sequence can become.
NextRec ==
  \/ StartRecording
  \/ StopRecording
  \/ RecordNote
  \/ ClearRecording
  \/ SetMaxRecordingLength
  \/ ImportSequence
  \/ RecTick

SpecRec == InitRec /\ [][NextRec]_vars

\* Recording and playback: the recorder's modes.
NextPlay ==
  \/ Gesture
  \/ StartRecording
  \/ StopRecording
  \/ RecordNote
  \/ PlayRecording
  \/ StopPlayback
  \/ ClearRecording
  \/ PlaybackTimerFire
  \/ RecTick

SpecPlay == InitRec /\ [][NextPlay]_vars

\* Recording, export and re-import.
NextExport ==
  \/ StartRecording
  \/ StopRecording
  \/ RecordNote
  \/ ClearRecording
  \/ ExportSequence
  \/ ImportExported
  \/ RecTick

SpecExport == InitRec /\ [][NextExport]_vars

\* The pure functions, applied to one input of any kind.
PureInputs == {JInt(k) : k \in (0 - MaxIdx)..(NoteCount - 1 + MaxIdx)} \cup {JFrac(k) : k \in (0 - MaxIdx)..(NoteCount - 1 + MaxIdx)} \cup {JStr(str) : str \in {"0", "3", "10", "", "-1", "11", "abc"}} \cup {JNaN, JUndef, JNull, JFunc, JBool(TRUE), JBool(FALSE), JArr(<<>>), JArr(<<JInt(3)>>), JObj(<<>>)}

InitPure ==
  /\ now = 0
  /\ isInitialized = FALSE
  /\ activeOscillators = {}
  /\ activeNotes = {}
  /\ noteTimers = {}
  /\ maxPolyphony = JInt(DefaultMaxPolyphony)
  /\ activeBars = {}
  /\ activeTimeouts = {}
  /\ isRecording = FALSE
  /\ isPlaying = FALSE
  /\ recordedSequence = <<>>
  /\ recordingStartTime = 0
  /\ maxRecordingLength = DefaultMaxRecordingLength
  /\ playbackTimeout = "null"
  /\ playback = NoPlayback
  /\ exported = <<>>
  /\ exportedFrom = <<>>
  /\ noteDuration = DefaultNoteDurationMs
  /\ contextsCreated = 0
  /\ audioContext = 0
  /\ masterGain = NoGain
  /\ awaiting = {}
  /\ app = AppConstructed
  /\ volumeAsked = NoNumber
  /\ playbackRun = NoRun
  /\ inputHandler = InputHandlerInitialized
  /\ keysHeld = {}
  /\ lastTouchAt = NoNumber
  /\ lastKeyNoteAt = [key \in KeyboardKeys |-> NoNumber]
  /\ volumeSlider = DefaultVolume
  /\ \E x \in PureInputs : last = [FirstLast(x) EXCEPT !.op = "input"]

IsValidNoteIndex ==
  /\ last.op = "input"
  /\ last' = [last EXCEPT !.op = "isValidNoteIndex", !.ret = IF isValidNoteIndex(last.arg) THEN "true" ELSE "false"]
  /\ UNCHANGED <<now, isInitialized, activeOscillators, activeNotes, noteTimers, maxPolyphony, activeBars, activeTimeouts, isRecording, isPlaying, recordedSequence, recordingStartTime, maxRecordingLength, playbackTimeout, playback, exported, exportedFrom, noteDuration, audioContext, masterGain, contextsCreated, awaiting, app, volumeAsked, playbackRun, inputHandler, keysHeld, lastTouchAt, lastKeyNoteAt, volumeSlider>>

NextPure == IsValidNoteIndex

SpecPure == InitPure /\ [][NextPure]_vars

\* Voices of any duration, with the engine initialized.
NextTone ==
  \/ SetNoteDuration
  \/ Strike
  \/ NoteTimerFire
  \/ OnEnded
  \/ Tick

SpecTone == InitRec /\ [][NextTone]_vars

\* The engine's life cycle with voices: initialize() and dispose() with
\* their awaits, and triggers.
NextEngine ==
  \/ InitializeCall
  \/ InitializeResumed
  \/ Dispose
  \/ DisposeClosed
  \/ Strike

SpecEngine == Init /\ [][NextEngine]_vars

\* The master volume, before and after the engine is initialized.
NextVolume ==
  \/ InitializeCall
  \/ InitializeResumed
  \/ SetVolume
  \/ GetVolume
  \/ Tick

SpecVolume == Init /\ [][NextVolume]_vars

\* Recording and playback with the audio engine not initialized: triggers
\* are made and dropped by the engine, so that no voice limits a playback.
NextReplay ==
  \/ StartRecording
  \/ StopRecording
  \/ RecordNote
  \/ Replay
  \/ StopPlayback
  \/ ClearRecording
  \/ PlaybackTimerFire
  \/ RecTick

SpecReplay == Init /\ [][NextReplay]_vars

\* Playback of loaded sequences, with the audio engine not initialized.
NextLive ==
  \/ LoadIdle
  \/ Replay
  \/ StopPlayback
  \/ ClearRecording
  \/ PlaybackTimerFire
  \/ RecTick

SpecLive == Init /\ [][NextLive]_vars

\* The playback timer is due: PlaybackTimerFire is enabled.
PlaybackTimerDue == playback.waiting /\ now >= playback.fireAt

\* The same with a clock that advances and a playback timer that fires
\* once due.  The second condition is WF_vars(PlaybackTimerFire) written
\* out: the action is enabled exactly when the timer is due, and its steps
\* are the ones that leave last.op = "playbackTimer".
FairLive == SpecLive /\ WF_vars(RecTick) /\ ([]<>~PlaybackTimerDue \/ []<><<last'.op = "playbackTimer">>_vars)

\* Playback with imports made at any time, the audio engine not
\* initialized.
NextLoad ==
  \/ LoadSequence
  \/ Replay
  \/ StopPlayback
  \/ PlaybackTimerFire
  \/ RecTick

SpecLoad == Init /\ [][NextLoad]_vars

\* The trigger path under live gestures and under playback, with the
\* recorder's length limit.
NextTrigger ==
  \/ Initialize
  \/ Gesture
  \/ StartRecording
  \/ StopRecording
  \/ SetMaxRecordingLength
  \/ Replay
  \/ PlaybackTimerFire
  \/ RecTick

SpecTrigger == Init /\ [][NextTrigger]_vars

\* The keyboard, with the audio engine initialized.
NextKeys ==
  \/ KeyDown
  \/ KeyUp
  \/ RecTick

SpecKeys == InitRec /\ [][NextKeys]_vars

\* Touch and mouse on a hybrid device, with the audio engine initialized.
NextTouch ==
  \/ TouchStart
  \/ Click
  \/ TouchTimeoutFire
  \/ BarTimeoutFire
  \/ PulseTick

SpecTouch == InitRec /\ [][NextTouch]_vars

\* The visual pulse.
NextPulse ==
  \/ ActivateBar
  \/ BarTimeoutFire
  \/ PulseTick

SpecPulse == Init /\ [][NextPulse]_vars

\* The same with a clock that advances and removal timers that fire once
\* due.
FairPulse == SpecPulse /\ WF_vars(PulseTick) /\ WF_vars(BarTimeoutFire)

\* Voices from their start to their end, with stopAllNotes.
NextVoices ==
  \/ SetNoteDuration
  \/ StrikeWithin
  \/ StopAllNotes
  \/ NoteTimerFire
  \/ OnEnded
  \/ Tick

SpecVoices == InitRec /\ [][NextVoices]_vars

\* A voice has reached its scheduled stop: OnEnded is enabled.  A cleanup
\* timer is due: NoteTimerFire is enabled.
OnEndedDue == \E oscillator \in activeOscillators : now >= oscillator.stopAt
NoteTimerDue == \E timer \in noteTimers : now >= timer.fireAt

\* The same with an audio clock that advances, completion notifications
\* that are delivered and cleanup timers that fire once due.  The last two
\* conditions are WF_vars(OnEnded) and WF_vars(NoteTimerFire) written out:
\* each action is enabled exactly when its callback is due, and its steps
\* are the ones that leave its name in last.op.
FairVoices == SpecVoices /\ WF_vars(Tick) /\ ([]<>~OnEndedDue \/ []<><<last'.op = "onended">>_vars) /\ ([]<>~NoteTimerDue \/ []<><<last'.op = "noteTimer">>_vars)

\* Playback that sounds: loaded sequences played and stopped with the
\* audio engine initialized, with recording.
NextCancel ==
  \/ LoadIdle
  \/ StartRecording
  \/ StopRecording
  \/ Replay
  \/ StopPlayback
  \/ PlaybackTimerFire
  \/ RecTick

SpecCancel == InitRec /\ [][NextCancel]_vars

\* Voices with a backend that may throw while a voice is built.
NextThrow ==
  \/ SetMaxPolyphony
  \/ Strike
  \/ StrikeThrowing
  \/ NoteTimerFire
  \/ OnEnded
  \/ Tick

SpecThrow == InitRec /\ [][NextThrow]_vars

\* The polyphony limit set to values of every kind, with voices.
NextPolyphony ==
  \/ SetMaxPolyphonyTo
  \/ Strike
  \/ NoteTimerFire
  \/ OnEnded
  \/ Tick

SpecPolyphony == InitRec /\ [][NextPolyphony]_vars

\* Import and playback of sequences with non-positive delays, the audio
\* engine not initialized.
NextEarly ==
  \/ LoadEarly
  \/ Replay
  \/ StopPlayback
  \/ PlaybackTimerFire
  \/ RecTick

SpecEarly == Init /\ [][NextEarly]_vars

\* Voices of every accepted duration and their envelopes.
NextEnvelope ==
  \/ SetNoteDurationTo
  \/ Strike
  \/ NoteTimerFire
  \/ OnEnded
  \/ Tick

SpecEnvelope == InitRec /\ [][NextEnvelope]_vars

\* Touch and mouse with the input handler disposed of and initialized
\* again.
NextHandler ==
  \/ InputInitialize
  \/ InputDispose
  \/ TouchStart
  \/ Click
  \/ TouchTimeoutFire
  \/ BarTimeoutFire
  \/ PulseTick

SpecHandler == InitRec /\ [][NextHandler]_vars

\* The volume slider of the controls and the engine's master volume.
NextMixer ==
  \/ InitializeCall
  \/ InitializeResumed
  \/ SliderInput
  \/ ControlsSetVolume
  \/ ControlsInitialize
  \/ Tick

SpecMixer == Init /\ [][NextMixer]_vars

\* The application's start and its gesture-driven initialization of the
\* audio engine.
NextApp ==
  \/ AppInitialize
  \/ AppGesture
  \/ InitializeResumed

SpecApp == Init /\ [][NextApp]_vars

(***************************************************************************)
(* Properties.                                                             *)
(***************************************************************************)
\* The operations that trigger a note.
TriggerOps == {"playNote", "playNoteByKey", "handleBarActivation"}

\* C1: a playNote call that starts a voice never leaves more live voices
\* (activeOscillators) than maxPolyphony allows.
C1_LiveVoicesWithinPolyphony == [][(last'.op = "playNote" /\ Cardinality(activeOscillators') > Cardinality(activeOscillators)) => JsGeq(maxPolyphony', Cardinality(activeOscillators'))]_vars

C3_NeverRecordingAndPlaying == ~(isRecording /\ isPlaying)

\* C4: playRecording called while recording is a no-op: the recorder keeps
\* recording, does not start playing, the sequence is unchanged and no note
\* is triggered.
C4_PlayWhileRecordingIsNoOp == [][(last'.op = "playRecording" /\ isRecording /\ ~isPlaying) => (isRecording' /\ ~isPlaying' /\ recordedSequence' = recordedSequence /\ last'.emitted = <<>> /\ activeOscillators' = activeOscillators)]_vars

\* C5: the recordNote call that brings the sequence to maxRecordingLength
\* entries leaves the recorder idle, and a recordNote call made while idle
\* leaves the sequence unchanged.
C5_FullRecordingStops == [][(last'.op = "recordNote") => (((isRecording /\ Len(recordedSequence') = Len(recordedSequence) + 1 /\ Len(recordedSequence') = maxRecordingLength') => ~isRecording') /\ (~isRecording => recordedSequence' = recordedSequence))]_vars

\* C6: the recorded sequence never holds more than maxRecordingLength
\* entries.
C6_SequenceWithinMaximum == Len(recordedSequence) <= maxRecordingLength

\* C7: importing the text exportSequence returned for a live-recorded
\* sequence succeeds and leaves a recorded sequence equal to the exported
\* one, element by element and in order.
C7_ExportImportRoundTrip == (last.op = "importSequence" /\ last.input = 0) => (last.ret = "true" /\ recordedSequence = exportedFrom)

\* Notes recorded 0, 50 and 200 ms after the start have been exported and
\* imported again.
C7_ThreeNotesRoundTrip == last.op = "importSequence" /\ last.input = 0 /\ last.ret = "true" /\ exportedFrom = <<Recorded(JInt(0), JInt(0)), Recorded(JInt(0), JInt(50)), Recorded(JInt(0), JInt(200))>> /\ recordedSequence = exportedFrom

\* An element has a number under the key.
C8_NumericField(x, key) == x.t = "obj" /\ \E f \in 1..Len(x.fields) : x.fields[f][1] = key /\ x.fields[f][2].t \in {"int", "frac"}
\* Input k is the text of an array whose elements all have a numeric
\* noteIndex and a numeric delay.
C8_Acceptable(k) == k <= Len(ImportValues) /\ ImportValues[k].t = "arr" /\ \A j \in 1..Len(ImportValues[k].items) : C8_NumericField(ImportValues[k].items[j], "noteIndex") /\ C8_NumericField(ImportValues[k].items[j], "delay")

\* C8: importSequence is all-or-nothing: given text that is not an array
\* of elements with numeric noteIndex and delay it returns false and leaves
\* the recorder as it was; given such an array it returns true and the
\* array replaces the recorded sequence.
C8_ImportAllOrNothing == [][(last'.op = "importSequence" /\ last'.input >= 1) => IF C8_Acceptable(last'.input) THEN (last'.ret = "true" /\ recordedSequence' = ImportValues[last'.input].items /\ UNCHANGED <<isRecording, isPlaying, recordingStartTime, maxRecordingLength>>) ELSE (last'.ret = "false" /\ UNCHANGED <<recordedSequence, isRecording, isPlaying, recordingStartTime, maxRecordingLength, playbackTimeout, playback>>)]_vars

\* An array whose second element has a string for noteIndex has just been
\* refused while a two-note recording was held.
C8_InvalidSecondElementRefused == last.op = "importSequence" /\ last.input = 3 /\ last.ret = "false" /\ Len(recordedSequence) = 2 /\ recordedSequence # SubSeq(ImportValues[3].items, 1, 2)

\* C9: isValidNoteIndex(i) is true exactly when i is an integer from 0 to
\* noteCount - 1 = 10.
C9_ValidIffIntegerInRange == last.op = "isValidNoteIndex" => (last.ret = "true" <=> (last.arg.t = "int" /\ last.arg.v >= 0 /\ last.arg.v <= 10))

\* isValidNoteIndex has just refused 1.5, a number inside the range.
C9_NonIntegerRefused == last.op = "isValidNoteIndex" /\ last.arg = JFrac(1) /\ last.ret = "false"

\* C10: a trigger whose index is not an integer from 0 to 10 does not
\* throw, and leaves activeNotes and activeOscillators unchanged.
C10_InvalidTriggerRejected == [][(last'.op \in TriggerOps /\ ~(last'.arg.t = "int" /\ last'.arg.v >= 0 /\ last'.arg.v <= 10)) => (last'.ret # "throw" /\ activeNotes' = activeNotes /\ activeOscillators' = activeOscillators)]_vars

\* C11: every voice a call starts at audio-clock time now with note duration
\* d has its oscillator scheduled to start at now and to stop at
\* now + d + 1200 ms, the time of the last breakpoint of its gain; with the
\* default d = 2000 ms its scheduled lifetime is 3200 ms.
C11_VoiceScheduledLifetime == [][\A o \in activeOscillators' \ activeOscillators : (o.startAt = now /\ o.stopAt = now + noteDuration + 1200 /\ o.rampEnd = o.stopAt /\ (noteDuration = 2000 => o.stopAt - o.startAt = 3200))]_vars

\* After the clock has advanced, playNote has just started a voice of
\* 500 ms, and one of the default duration sounds beside it.
C11_VoicesOfTwoDurations == last.op = "playNote" /\ last.ret = "true" /\ now > 0 /\ noteDuration = 500 /\ (\E o \in activeOscillators : o.startAt = now /\ o.stopAt = now + 1700) /\ (\E o \in activeOscillators : o.stopAt = o.startAt + 3200)

\* The note indices whose frequency a voice has.
IndexOfVoice(o) == {JInt(k) : k \in {j \in 0..(Len(notes) - 1) : notes[j + 1].frequency = o.frequency}}

\* C12: a voice admitted by playNote stays counted in the set the admission
\* check reads (activeNotes) until the backend's completion notification
\* (onended) for its scheduled stop: every voice that has not completed has
\* its note's entry.
C12_VoiceCountedUntilCompletion == \A o \in activeOscillators : IndexOfVoice(o) \subseteq activeNotes

\* C13: membership is keyed by voice identity: a step that admits one more
\* voice adds one entry to the set used for admission, and a step that
\* completes one voice removes one.
C13_OneEntryPerVoice == [][(Cardinality(activeOscillators') = Cardinality(activeOscillators) + 1 => Cardinality(activeNotes') = Cardinality(activeNotes) + 1) /\ (Cardinality(activeOscillators') = Cardinality(activeOscillators) - 1 => Cardinality(activeNotes') = Cardinality(activeNotes) - 1)]_vars

\* C14: getVolume() returns the level last passed to setVolume, clamped to
\* 0 .. 100 percent, or the default 70 percent if setVolume was never
\* called.
C14_GetVolumeReturnsLastSet == last.op = "getVolume" => last.num = (IF volumeAsked = NoNumber THEN 70 ELSE IF volumeAsked > 100 THEN 100 ELSE IF volumeAsked < 0 THEN 0 ELSE volumeAsked)

\* C15: at most one audio context with its master gain node is ever
\* created, and every voice is connected to that one node.
C15_SingleMasterGain == contextsCreated <= 1 /\ \A o \in activeOscillators : o.gain = 1

\* The delay recorded for event i of the sequence, in ms.
C16_Delay(i) == GetField(recordedSequence[i + 1], "delay").v

\* C16: the events a playback triggers are the recorded ones in sequence
\* order, each once (event i is the i-th the playback triggers), and event
\* i is not triggered before the playback's start + delay_i, also when an
\* earlier wait overran.
C16_PlaybackInOrderNotEarly == [][\A k \in 1..Len(last'.triggered) : (last'.op \in {"playRecording", "playbackTimer"} /\ last'.triggered[k].run = playbackRun'.id /\ last'.triggered[k].i = (IF playbackRun'.id = playbackRun.id THEN playbackRun.done ELSE 0) + (k - 1) /\ last'.triggered[k].i < Len(recordedSequence) /\ last'.triggered[k].noteIndex = GetField(recordedSequence[last'.triggered[k].i + 1], "noteIndex") /\ now >= playbackRun'.start + C16_Delay(last'.triggered[k].i))]_vars

\* A wait of a playback overran: its timer has just fired late, event 1 was
\* triggered after its time and event 2, by then due, right after it.
C16_OverrunTriggersTwoInOrder == last.op = "playbackTimer" /\ Len(last.triggered) = 2 /\ last.triggered[1].i = 1 /\ last.triggered[2].i = 2 /\ Len(recordedSequence) = 3 /\ now > playbackRun.start + C16_Delay(1)

\* C17: a stopPlayback call made during playback leaves isPlaying false,
\* triggers nothing and leaves no loop waiting; a loop that waits always
\* belongs to the playback that is on, and an event is only ever triggered
\* for the playback that is on, so none is triggered for a stopped one,
\* whatever is called later.
C17_StoppedPlaybackTriggersNothing == [][((last'.op = "stopPlayback" /\ isPlaying) => (~isPlaying' /\ last'.triggered = <<>> /\ ~playback'.waiting)) /\ (playback'.waiting => (isPlaying' /\ playback'.run = playbackRun'.id)) /\ (\A k \in 1..Len(last'.triggered) : (last'.triggered[k].run = playbackRun'.id /\ (isPlaying \/ playbackRun'.id = playbackRun.id + 1)))]_vars

\* stopPlayback has just been called while a playback waited for its next
\* event, with events still to come.
C17_StoppedWhileWaiting == last.op = "stopPlayback" /\ last.was.isPlaying /\ last.was.waiting /\ ~isPlaying /\ playbackRun.done >= 1 /\ playbackRun.done < Len(recordedSequence)

\* C18: with timers that fire, a playRecording call made from Idle (neither
\* recording nor playing) with a non-empty sequence begins a playback that
\* leads to the recorder being idle again with every recorded event
\* triggered, or with the playback cancelled by stopPlayback or
\* clearRecording.
C18_PlaybackCompletes == \A r \in 1..MaxPlaybacks : (last.op = "playRecording" /\ ~last.was.isRecording /\ ~last.was.isPlaying /\ Len(recordedSequence) > 0 /\ playbackRun.id = r) ~> (~isPlaying /\ playbackRun.id = r /\ (last.op \in {"stopPlayback", "clearRecording"} \/ playbackRun.done = Len(recordedSequence)))

\* The second playback of a three-event sequence, begun from Idle, has
\* just ended with the timer of its last event.
C18_PlayedToTheEnd == last.op = "playbackTimer" /\ ~isPlaying /\ ~isRecording /\ playbackRun.id = 2 /\ Len(recordedSequence) = 3 /\ playbackRun.done = 3

\* The argument of the trigger is a note index: an integer from 0 to 10.
C19_NoteIndex(x) == x.t = "int" /\ x.v >= 0 /\ x.v <= 10

\* C19: a trigger of a note index made while the audio engine is not
\* initialized is dropped: playNote and playNoteByKey return false,
\* activeNotes and activeOscillators are unchanged, no bar is activated and
\* no notePlayed event is dispatched; made while the engine is initialized
\* and the active count is below maxPolyphony, playNote returns true and a
\* voice sounds.
C19_UninitializedTriggerDropped == [][(last'.op \in TriggerOps /\ C19_NoteIndex(last'.arg)) => (IF ~isInitialized THEN ((last'.op # "handleBarActivation" => last'.ret = "false") /\ last'.ret # "throw" /\ activeNotes' = activeNotes /\ activeOscillators' = activeOscillators /\ activeBars' = activeBars /\ last'.activated = <<>> /\ last'.emitted = <<>>) ELSE (JsGreater(maxPolyphony, Cardinality(activeNotes)) => ((last'.op # "handleBarActivation" => last'.ret = "true") /\ Cardinality(activeOscillators') = Cardinality(activeOscillators) + 1 /\ last'.arg \in activeNotes')))]_vars

\* playNote(1) has just been dropped by an engine that is not initialized.
C19_TriggerDroppedAfterFailedInit == last.op = "playNote" /\ last.arg = JInt(1) /\ last.ret = "false" /\ ~last.was.isInitialized /\ ~isInitialized /\ activeNotes = {} /\ activeOscillators = {}

\* C20: while the notice is shown and the audio engine is not initialized,
\* every gesture starts a new initialization attempt, and a gesture on
\* which the backend can start leaves the engine initialized and the notice
\* removed.
C20_GestureRetriesInitialization == [][(last'.op = "gesture" /\ app.notice /\ ~isInitialized) => (app'.initializationAttempts = app.initializationAttempts + 1 /\ (last'.arg = JStr("running") => (isInitialized' /\ ~app'.notice)))]_vars

\* C21: clearRecording() called while recording or while playing changes
\* neither the recorder's state (isRecording, isPlaying, the pending wait)
\* nor the recorded sequence; called from Idle it empties the sequence.
C21_ClearOnlyFromIdle == [][(last'.op = "clearRecording") => (IF isRecording \/ isPlaying THEN UNCHANGED <<isRecording, isPlaying, recordedSequence, playbackTimeout, playback>> ELSE (recordedSequence' = <<>> /\ UNCHANGED <<isRecording, isPlaying>>))]_vars

\* C22: startRecording() called while playing is rejected: isRecording
\* stays as it was (false in the Playing state), the recorded sequence and
\* the recording-start timestamp are unchanged, and the running playback is
\* left as it was: still playing, the same wait pending, nothing triggered.
C22_RecordWhilePlayingRejected == [][(last'.op = "startRecording" /\ isPlaying) => ((~isRecording => ~isRecording') /\ last'.triggered = <<>> /\ UNCHANGED <<isRecording, recordedSequence, recordingStartTime, isPlaying, playbackTimeout, playback, playbackRun>>)]_vars

\* startRecording has just been called while a playback of a recorded
\* sequence waited for its next event; the recorder is not recording.
C22_RejectedWhileWaiting == last.op = "startRecording" /\ last.was.isPlaying /\ last.was.waiting /\ ~last.was.isRecording /\ ~isRecording /\ isPlaying /\ playback.waiting /\ Len(recordedSequence) >= 2 /\ playbackRun.done >= 1

\* C23: while the recorder is playing, the sequence being replayed is never
\* changed: a step that finds the recorder playing and leaves it playing
\* leaves recordedSequence as it was.
C23_SequenceFixedWhilePlaying == [][(isPlaying /\ isPlaying') => recordedSequence' = recordedSequence]_vars

\* The voices a step has started: its successful triggers.
C24_Started == Cardinality(activeOscillators') - Cardinality(activeOscillators)

\* C24: live gestures and playback go through handleBarActivation: a step
\* of either activates one bar and dispatches one notePlayed event, with the
\* index and the time of the trigger, per voice it starts, and none for a
\* trigger that starts no voice; the event of a live gesture is appended to
\* the recorded sequence if and only if the recorder is recording at that
\* moment.
C24_OneActivationOneNotification == [][(last'.op \in {"handleBarActivation", "playRecording", "playbackTimer"}) => (Len(last'.activated) = C24_Started /\ Len(last'.emitted) = C24_Started /\ (\A k \in 1..Len(last'.emitted) : (last'.emitted[k].timestamp = now /\ last'.activated[k] = last'.emitted[k].noteIndex /\ (last'.op = "handleBarActivation" => last'.emitted[k].noteIndex = last'.arg))) /\ (last'.op = "handleBarActivation" => recordedSequence' = (IF isRecording /\ C24_Started = 1 THEN Append(recordedSequence, Recorded(last'.arg, JInt(now - recordingStartTime))) ELSE recordedSequence)))]_vars

\* C25: holding a mapped key down triggers at most one note: a keydown of a
\* key whose earlier keydown triggered a note and that was not released
\* since starts no voice, activates no bar and dispatches no event.
C25_HeldKeyTriggersOnce == [][(last'.op = "keydown" /\ last'.arg.s \in keysHeld) => (activeOscillators' = activeOscillators /\ activeNotes' = activeNotes /\ last'.activated = <<>> /\ last'.emitted = <<>>)]_vars

\* Key a is held and repeats once the debounce time has passed: its first
\* keydown triggered the one voice that sounds, the last one nothing.
C25_RepeatAfterDebounceIgnored == last.op = "keydown" /\ last.arg = JStr("a") /\ "a" \in keysHeld /\ last.emitted = <<>> /\ now - inputHandler.lastKeyPress["a"] >= 100 /\ Cardinality(activeOscillators) = 1

\* A touchstart was delivered less than 300 ms ago.
C26_TouchedWithin == lastTouchAt # NoNumber /\ now - lastTouchAt < 300

\* No touchstart was delivered, or the last one more than 300 ms ago and
\* its reset timer has run.
C26_TouchLongAgo == lastTouchAt = NoNumber \/ (now - lastTouchAt > 300 /\ inputHandler.touchTimeout = NoNumber)

\* The step triggers exactly one note, on the bar of its event.
C26_TriggersOne == Cardinality(activeOscillators') = Cardinality(activeOscillators) + 1 /\ last'.emitted = <<[noteIndex |-> last'.arg, timestamp |-> now]>> /\ last'.activated = <<last'.arg>>

\* The step triggers nothing.
C26_TriggersNone == activeOscillators' = activeOscillators /\ activeNotes' = activeNotes /\ last'.emitted = <<>> /\ last'.activated = <<>>

\* C26: a touchstart on a bar triggers exactly one note and a click that
\* follows a touchstart within 300 ms triggers none, so a tap that delivers
\* both triggers one; a click is ignored only if a touchstart was delivered
\* within the last 300 ms (or its reset timer, due at this instant, has yet
\* to run), and a click made with no touch before or after that time is
\* handled: it triggers one note.
C26_TapTriggersOnce == [][(last'.op = "touchstart" => C26_TriggersOne) /\ (last'.op = "click" => ((C26_TouchedWithin => C26_TriggersNone) /\ (C26_TouchLongAgo => C26_TriggersOne) /\ (C26_TriggersNone \/ C26_TriggersOne) /\ (C26_TriggersNone => (lastTouchAt # NoNumber /\ (now - lastTouchAt <= 300 \/ inputHandler.touchTimeout # NoNumber)))))]_vars

\* A tap on bar 0 delivered a touchstart and, 100 ms later, a click that was
\* ignored; a click on bar 1 400 ms after the touch has just been handled.
C26_IgnoredThenHandled == last.op = "click" /\ last.arg = JInt(1) /\ last.emitted # <<>> /\ lastTouchAt = 0 /\ now >= 400 /\ (\E o \in activeOscillators : o.startAt = 0 /\ o.frequency = notes[1].frequency) /\ Cardinality(activeOscillators) = 2

\* The removal timers pending for a bar.
C27_TimersOf(timeouts, bar) == {tm \in timeouts : tm.noteIndex = bar}

\* C27: after activateBar(i) the bar carries the active class, with exactly
\* one removal timer pending, set for 300 ms after this, its most recent,
\* activation; a bar that carries the class has exactly one timer pending
\* and keeps it until it is activated again or cleared; it is cleared no
\* earlier than the time of that timer; and, with a clock that advances
\* and timers that fire, every activated bar is eventually deactivated.
C27_PulseLastsActiveDuration == [][\A bar \in {JInt(0), JInt(1)} : (((last'.op = "activateBar" /\ last'.arg = bar) => (bar \in activeBars' /\ C27_TimersOf(activeTimeouts', bar) = {[noteIndex |-> bar, fireAt |-> now + 300]})) /\ (bar \in activeBars' => Cardinality(C27_TimersOf(activeTimeouts', bar)) = 1) /\ (bar \notin activeBars' => C27_TimersOf(activeTimeouts', bar) = {}) /\ ((bar \in activeBars /\ bar \in activeBars' /\ ~(last'.op = "activateBar" /\ last'.arg = bar)) => C27_TimersOf(activeTimeouts', bar) = C27_TimersOf(activeTimeouts, bar)) /\ ((bar \in activeBars /\ bar \notin activeBars') => (\A tm \in C27_TimersOf(activeTimeouts, bar) : now >= tm.fireAt)))]_vars /\ (\A bar \in {JInt(0), JInt(1)} : (bar \in activeBars) ~> (bar \notin activeBars))

\* Bar 0 has just been activated again 100 ms after its first activation:
\* its one timer is set for 300 ms from now.
C27_Reactivated == last.op = "activateBar" /\ last.arg = JInt(0) /\ JInt(0) \in last.was.activeBars /\ now = 100 /\ activeBars = {JInt(0)} /\ activeTimeouts = {[noteIndex |-> JInt(0), fireAt |-> 400]}

\* The times at which a voice can be admitted in the voice specification.
C28_StartTimes == {k * TickMs : k \in 0..MaxTicks}

\* C28: with an audio clock and timers that advance, every admitted voice
\* is eventually removed from the engine's active set (whenever voices
\* admitted at a time t are live, later none of them is), and once no
\* further note is triggered both active counts (activeOscillators,
\* activeNotes) reach 0 and stay there.
C28_VoicesEndCountsReachZero == (\A t \in C28_StartTimes : (\E o \in activeOscillators : o.startAt = t) ~> (\A o \in activeOscillators : o.startAt # t)) /\ [](\A o \in activeOscillators : o.startAt \in C28_StartTimes) /\ <>[](Cardinality(activeOscillators) = 0 /\ Cardinality(activeNotes) = 0)

\* The last of two voices, a default one and one of 500 ms, has just ended
\* by its onended notification: both counts are 0.
C28_BothCountsBackToZero == last.op = "onended" /\ activeOscillators = {} /\ activeNotes = {} /\ noteTimers = {} /\ noteDuration = 500 /\ now >= 3200

\* The cleanup timer belongs to a voice that is no longer live: the voice
\* of its note started noteDuration before the timer's time was stopped.
C29_TimerOfStoppedVoice(tm) == ~\E o \in activeOscillators : o.frequency = NoteAt(tm.noteIndex).frequency /\ o.startAt + noteDuration = tm.fireAt

\* C29: after stopAllNotes() both active sets are empty, and the late
\* cleanup timer of a voice it stopped removes no entry that belongs to a
\* voice triggered after the call: the entries of the voices that are live
\* stay in activeNotes.
C29_StopAllThenLateCleanup == [][(last'.op = "stopAllNotes" => (activeOscillators' = {} /\ activeNotes' = {})) /\ (last'.op = "noteTimer" => \A tm \in noteTimers \ noteTimers' : (C29_TimerOfStoppedVoice(tm) => \A o \in activeOscillators' : (IndexOfVoice(o) \cap activeNotes) \subseteq activeNotes'))]_vars

\* C30: stopPlayback() changes only the recorder's playback state
\* (isPlaying and the pending wait): it triggers nothing, and activeNotes,
\* activeOscillators with every voice's scheduled stop, the cleanup timers,
\* the active bars, recordedSequence and isRecording are unchanged.
C30_StopPlaybackLeavesVoices == [][(last'.op = "stopPlayback") => (~isPlaying' /\ ~playback'.waiting /\ last'.triggered = <<>> /\ last'.emitted = <<>> /\ last'.activated = <<>> /\ UNCHANGED <<activeNotes, activeOscillators, noteTimers, activeBars, activeTimeouts, recordedSequence, isRecording, recordingStartTime, maxRecordingLength, isInitialized, maxPolyphony, noteDuration, playbackRun>>)]_vars

\* stopPlayback has just cancelled a playback that waited for its next
\* event while a voice it had triggered sounds on.
C30_StoppedWithVoiceSounding == last.op = "stopPlayback" /\ last.was.isPlaying /\ last.was.waiting /\ ~isPlaying /\ playbackRun.done >= 1 /\ playbackRun.done < Len(recordedSequence) /\ activeNotes # {} /\ (\E o \in activeOscillators : o.startAt >= playbackRun.start /\ o.stopAt > now)

\* C31: a playNote call that reaches the engine's try block (engine
\* initialized, note index valid, active count below maxPolyphony) while
\* the backend throws at one of its graph-construction or scheduling steps
\* returns false and adds no voice: activeOscillators with every voice's
\* scheduled stop, activeNotes and the cleanup timers are unchanged.
C31_FailedVoiceLeavesOthers == [][(last'.op = "playNote" /\ last'.input \in ThrowSteps /\ isInitialized /\ C19_NoteIndex(last'.arg) /\ JsGreater(maxPolyphony, Cardinality(activeNotes))) => (last'.ret = "false" /\ activeOscillators' = activeOscillators /\ activeNotes' = activeNotes /\ noteTimers' = noteTimers)]_vars

\* playNote(0) has just failed at oscillator.stop while the voice of note
\* 10, started a second earlier, sounds on.
C31_FailedBesideLiveVoice == last.op = "playNote" /\ last.arg = JInt(0) /\ last.input = 6 /\ last.ret = "false" /\ now = 1000 /\ activeNotes = {JInt(10)} /\ (\E o \in activeOscillators : o.startAt = 0 /\ o.stopAt = 3200 /\ o.frequency = notes[11].frequency) /\ Cardinality(activeOscillators) = 1

\* C32: startRecording() called while recording is rejected: the recorder
\* keeps recording, and the events recorded so far and the recording-start
\* timestamp are unchanged.
C32_RecordWhileRecordingRejected == [][(last'.op = "startRecording" /\ isRecording) => (isRecording' /\ recordedSequence' = recordedSequence /\ recordingStartTime' = recordingStartTime)]_vars

\* The delay of entry k of the recorded sequence.
C33_DelayOf(k) == GetField(recordedSequence[k], "delay")

\* C33: while the recorder is recording, every entry of the recorded
\* sequence has an integer delay >= 0, the delays are non-decreasing in
\* insertion order, and an entry appended by a step has the delay
\* now - recordingStartTime (the event's timestamp is the time of the step).
C33_DelaysOrderedWhileRecording == [](isRecording => \A k \in 1..Len(recordedSequence) : (C33_DelayOf(k).t = "int" /\ C33_DelayOf(k).v >= 0 /\ (k > 1 => (C33_DelayOf(k - 1).t = "int" /\ C33_DelayOf(k - 1).v <= C33_DelayOf(k).v)))) /\ [][(isRecording /\ isRecording' /\ Len(recordedSequence') = Len(recordedSequence) + 1) => recordedSequence' = Append(recordedSequence, Recorded(GetField(recordedSequence'[Len(recordedSequence')], "noteIndex"), JInt(now - recordingStartTime)))]_vars

\* The value is an integer from 1 to 50.
C34_InRange(x) == x.t = "int" /\ x.v >= 1 /\ x.v <= 50

\* C34: the polyphony limit is always an integer in 1..50: a setMaxPolyphony
\* call with such a value sets it, a call with any other value leaves it
\* unchanged.
C34_PolyphonyLimitInRange == [](C34_InRange(maxPolyphony)) /\ [][(last'.op = "setMaxPolyphony") => (maxPolyphony' = IF C34_InRange(last'.arg) THEN last'.arg ELSE maxPolyphony)]_vars

\* C35: two notes triggered by keydown events of one key are at least
\* keyDebounceTime = 100 ms apart: a keydown of a key delivered less than
\* 100 ms after the last keydown of that key that triggered a note starts
\* no voice, activates no bar and dispatches no event, whether or not a
\* keyup of the key came in between.
C35_KeyNotesDebounced == [][(last'.op = "keydown" /\ lastKeyNoteAt[last'.arg.s] # NoNumber /\ now - lastKeyNoteAt[last'.arg.s] < 100) => (activeOscillators' = activeOscillators /\ activeNotes' = activeNotes /\ last'.activated = <<>> /\ last'.emitted = <<>> /\ lastKeyNoteAt' = lastKeyNoteAt)]_vars

\* Key a triggered a note at time 0 and was released; its keydown 50 ms
\* later has just been ignored: the key is not held and one voice sounds.
C35_QuickRepressIgnored == last.op = "keydown" /\ last.arg = JStr("a") /\ last.emitted = <<>> /\ lastKeyNoteAt["a"] = 0 /\ now = 50 /\ "a" \notin inputHandler.keysCurrentlyPressed /\ "a" \notin keysHeld /\ Cardinality(activeOscillators) = 1

\* Input number k of importSequence is the text of a sequence with
\* non-positive delays.
C36_EarlyInput(k) == k > Len(ImportTexts) + Len(ReplayTexts) /\ k <= Len(ImportTexts) + Len(ReplayTexts) + Len(EarlyValues)

\* C36: importSequence accepts a sequence whose elements have negative or
\* zero delays (it returns true and the elements become the recorded
\* sequence), and playback never waits for an event whose delay is not
\* positive: a loop that is suspended awaits an event with a positive
\* delay, so such an event is triggered in the step in which its turn
\* comes; the events a step triggers are consecutive in list order, each
\* with its recorded note.
C36_NonPositiveDelaysFireAtOnce == [][((last'.op = "importSequence" /\ C36_EarlyInput(last'.input)) => (last'.ret = "true" /\ recordedSequence' = EarlyValues[last'.input - Len(ImportTexts) - Len(ReplayTexts)].items)) /\ (playback'.waiting => (playback'.i < Len(recordedSequence') /\ playback'.note = recordedSequence'[playback'.i + 1] /\ JsGreater(GetField(playback'.note, "delay"), 0) /\ playback'.i = playbackRun'.done)) /\ (\A k \in 1..Len(last'.triggered) : (last'.triggered[k].i = (IF playbackRun'.id = playbackRun.id THEN playbackRun.done ELSE 0) + (k - 1) /\ last'.triggered[k].noteIndex = GetField(recordedSequence[last'.triggered[k].i + 1], "noteIndex")))]_vars

\* The playback of the sequence with delays 50, -5, 0 has just ended: its
\* one timer fired at 50 ms and the three events were triggered in that
\* step, in list order.
C36_LateEventsTogether == last.op = "playbackTimer" /\ Len(last.triggered) = 3 /\ last.triggered[2].noteIndex = JInt(1) /\ recordedSequence = EarlyValues[1].items /\ playbackRun.done = 3 /\ ~isPlaying /\ now = playbackRun.start + 50

\* C37: every voice a step admits has the breakpoints of its envelope in
\* time order: now <= attackEnd <= decayEnd <= releaseStart <= releaseEnd.
C37_BreakpointsOrdered == [][\A o \in activeOscillators' \ activeOscillators : (now <= o.attackEnd /\ o.attackEnd <= o.decayEnd /\ o.decayEnd <= o.releaseStart /\ o.releaseStart <= o.rampEnd)]_vars

\* C38: touchActive is true only while a reset timer is pending.
C38_TouchActiveHasTimer == inputHandler.touchActive => inputHandler.touchTimeout # NoNumber

\* C39: whenever the audio engine is initialized, the volume the controls
\* show (the slider's value, in percent) is the target of the engine's
\* master volume.
C39_SliderShowsEngineVolume == isInitialized => volumeSlider = masterGain.target

\* C40: with a clock that advances and timers that fire, every playRecording
\* call that begins a playback eventually returns: the loop of that
\* playback ends and the call's promise settles, whether the playback runs
\* to its end or is cancelled by stopPlayback during a wait.
C40_PlayRecordingSettles == \A r \in 1..MaxPlaybacks : (playbackRun.id >= r) ~> (r \in playbackRun.settled)

=============================================================================
